---- MODULE Spec2Model ----
(***************************************************************************)
(* A model of the STMPO local After Effects orchestrator                   *)
(* (src/stmpo/orchestrator.py): frame-range splitting, the planning of     *)
(* segmented renders, the spawn / monitor / terminate protocol of the      *)
(* child renderers, the signal handler, the ffmpeg stitch engine, the      *)
(* affinity blocks, project staging, the offloader, the output matcher and  *)
(* the output readers;                                                     *)
(* and of the kill tool (src/stmpo_stop.py).                               *)
(***************************************************************************)
EXTENDS Integers, Sequences, FiniteSets, TLC

VARIABLES
  \* ---- split_ranges called on its own --------------------------------
  sp_pc,          \* "idle" | "call" | "ret" | "raised"
  sp_args,        \* [start, end, parts]
  sp_ret,         \* the returned list of (s, e) pairs
  \* ---- _terminate_process_tree called on its own ----------------------
  tp_pc,          \* "idle" | "call" | "ret"
  tp_proc,        \* the process: [st, rc]
  tp_sys,         \* what the system calls do
  tp_res,         \* the process after the call, and the signals sent
  \* ---- build_affinity_blocks called on its own ------------------------
  ab_pc,          \* "idle" | "call" | "ret"
  ab_args,        \* [concurrency, pools]
  ab_ret,         \* the returned list of blocks
  \* ---- stage_project_to_local called on its own -----------------------
  sg_pc,          \* "idle" | "start" | "copy" | "ret"
  sg_env,         \* what the file system answers
  sg_attempts,    \* the outcome of each copy attempt made, in order
  sg_ret,         \* the returned path
  \* ---- offload_loop followed on its own --------------------------------
  of_pc,          \* "idle" | "loop" | "pass" | "stopped"
  of_dir,         \* the entries of local_dir
  of_todo,        \* the entries the listing of this pass has still to yield
  of_copied,      \* the set copied
  of_hist,        \* per entry, what each pass did with it, in order
  of_stop,        \* stop_event
  of_pass,        \* the number of passes that are over
  of_at_stop,     \* local_dir as it is when stop_event is set
  \* ---- the kill tool, stmpo_stop.py -----------------------------------
  ks_pc,          \* "idle" | "gather" | "kill" | "cleanup" | "ret"
  ks_env,         \* what the pid file and the log file hold
  ks_child_file,  \* children_pids.txt: [exists, pids]
  ks_todo,        \* the rest of pids_list
  ks_runner_pid,
  ks_calls,       \* the pids _kill_tree was called on, in order
  ks_alive,       \* the processes alive
  ks_rc,          \* the value returned by main
  \* ---- the output of the renderers on its way to the log --------------
  st_emitted,     \* per pid, the stream of each line written, in order
  st_pipe,        \* per pid and stream, the numbers of the lines not yet read
  st_q,           \* out_q
  st_log,         \* the items logged by the monitor loop, in order
  st_exited,      \* the pids of the renderers that have exited
  st_phase,       \* the monitor loop: "drain" | "check" | "left"
  \* ---- ffmpeg_concat_segments ----------------------------------------
  c_pc,           \* "idle" | "start" | "manifest" | "copy" | "reenc" | "reenc2" | "ret" | "raised"
  c_in,           \* [segments, ext, allow_reencode, caller]
  c_list,         \* concat_list.txt: [state: "none" | "written" | "failed", lines]
  c_invoked,      \* the ffmpeg invocations so far: [cmd, ok]
  c_ok,           \* the returned value, once c_pc = "ret"
  ffmpeg_env,     \* what ffmpeg answers to each strategy: strategy -> ok
  \* ---- run_orchestrator ----------------------------------------------
  pc,             \* position of the main thread in run_orchestrator
  cfg,            \* the arguments of the run (args.*)
  host,           \* the machine: [logical, total_ram_gb]
  workers,        \* concurrency as computed at lines 797-799
  concurrency,    \* concurrency after the ffmpeg fallback of line 820
  single_file_concat_mode,
  ffmpeg_path,    \* "unset" | "found" | "missing": find_ffmpeg() at line 811
  ranges,
  segment_outputs,
  next_i,         \* index of the spawn loop of line 947
  children,       \* the ChildProc list, with the state of each process
  files,          \* indices of the jobs whose output file exists
  outfile,        \* the single output file: "none" | "local" | "final"
  stop_children_event,
  stop_offload_event,
  scratch,        \* local_scratch_dir: "none" | "present" | "removed"
  rmtree_called,  \* shutil.rmtree has been called on local_scratch_dir
  failures,       \* the pids (child indices) recorded as failed, in order
  inverted,       \* a renderer has exited while one of a lower index was running
  rc,             \* the returned exit code, once pc = "done"
  exception,      \* the exception that ended the run, once pc = "crashed"
  cleanup_log,    \* what the last call of cleanup_resources did, in order
  sig,            \* the signals handled: [count, running: a renderer was running]
  stitch,         \* what line 1049-1059 found: [ffmpeg, missing]
  w_now,          \* time.time() in the monitor loop, counted from its start
  w_last,         \* last_output_time, per child index
  w_warned,       \* the children warned about as silent
  w_warnings,     \* the times of the warnings logged, per child index
  mt_pc,          \* build_output_matcher and its predicate: "idle" | "call" | "ret"
  mt_spec,        \* the output specification: [pre, token, suf]
  mt_name,        \* the name of the file the predicate is asked about
  mt_ok           \* what the predicate answers

splitVars == <<sp_pc, sp_args, sp_ret>>

termVars == <<tp_pc, tp_proc, tp_sys, tp_res>>

affVars == <<ab_pc, ab_args, ab_ret>>

stageVars == <<sg_pc, sg_env, sg_attempts, sg_ret>>

\* the helpers of the run and the kill tool, each followed on its own
offloadVars == <<of_pc, of_dir, of_todo, of_copied, of_hist, of_stop, of_pass,
                of_at_stop>>

stopVars == <<ks_pc, ks_env, ks_child_file, ks_todo, ks_runner_pid, ks_calls,
             ks_alive, ks_rc>>

streamVars == <<st_emitted, st_pipe, st_q, st_log, st_exited, st_phase>>

matchVars == <<mt_pc, mt_spec, mt_name, mt_ok>>

aloneVars == <<affVars, stageVars, offloadVars, stopVars, streamVars, matchVars>>

\* the functions called on their own
callVars == <<splitVars, termVars, aloneVars>>

concatVars == <<c_pc, c_in, c_list, c_invoked, c_ok, ffmpeg_env>>

planVars == <<cfg, host, workers, concurrency, single_file_concat_mode, ffmpeg_path,
              ranges, segment_outputs>>

procVars == <<next_i, children, failures, inverted>>

fileVars == <<files, outfile, scratch, rmtree_called>>

eventVars == <<stop_children_event, stop_offload_event, cleanup_log, sig>>

exitVars == <<pc, rc, exception>>

watchVars == <<w_now, w_last, w_warned, w_warnings>>

runVars == <<planVars, procVars, fileVars, eventVars, exitVars, stitch, watchVars>>

\* what the steps of the run outside the monitor loop leave alone
restVars == <<callVars, watchVars>>

vars == <<callVars, concatVars, runVars>>

\* what a helper followed on its own leaves alone
notAff ==
  <<splitVars, termVars, stageVars, offloadVars, stopVars, streamVars, matchVars,
    concatVars, runVars>>

notStage ==
  <<splitVars, termVars, affVars, offloadVars, stopVars, streamVars, matchVars,
    concatVars, runVars>>

notOffload ==
  <<splitVars, termVars, affVars, stageVars, stopVars, streamVars, matchVars,
    concatVars, runVars>>

notStreams ==
  <<splitVars, termVars, affVars, stageVars, offloadVars, stopVars, matchVars,
    concatVars, runVars>>

notStop ==
  <<splitVars, termVars, affVars, stageVars, offloadVars, streamVars, matchVars,
    concatVars, runVars>>

notMatch ==
  <<splitVars, termVars, affVars, stageVars, offloadVars, stopVars, streamVars,
    concatVars, runVars>>

(***************************************************************************)
(* Bounds of the model.                                                    *)
(***************************************************************************)
MaxFirst == 2     \* split_ranges: start ranges over -MaxFirst..MaxFirst
MaxSpan == 6     \* split_ranges: end ranges over start-2..start+MaxSpan-1
MaxParts == 7     \* split_ranges: parts ranges over -1..MaxParts
MaxSegs == 2     \* ffmpeg_concat_segments called directly: at most MaxSegs segments
MaxFrames == 2    \* run_orchestrator: args.end ranges over 1..MaxFrames
MaxConc == 2     \* run_orchestrator: args.concurrency is 0 (auto) or MaxConc
MaxPlanFrames == 4  \* planning alone: total_frames ranges over -1..MaxPlanFrames
MaxPlanConc == 4    \* planning alone: args.concurrency ranges over -1..MaxPlanConc
MaxSignals == 1   \* run_orchestrator: at most MaxSignals signals arrive
MaxTime == 2     \* the monitor loop: the clock ranges over 0..MaxTime
MaxGrace == 1     \* the monitor loop: args.child_grace_sec ranges over 0..MaxGrace

(***************************************************************************)
(* Python integer arithmetic: // is floor division and % takes the sign    *)
(* of the divisor.                                                         *)
(***************************************************************************)
PyFloorDiv(a, b) == IF b > 0 THEN a \div b ELSE (0 - a) \div (0 - b)

PyMod(a, b) == a - b * PyFloorDiv(a, b)

Range(seq) == {seq[i] : i \in DOMAIN seq}

(***************************************************************************)
(* split_ranges (orchestrator.py 375-393)                                  *)
(***************************************************************************)
\* parts with the lower clamp only
ClampPartsBelowOnly(total, parts) == IF parts <= 0 THEN 1 ELSE parts

\* parts after the two clamps of lines 377-380
ClampParts(total, parts) ==
  LET p1 == IF parts <= 0 THEN 1 ELSE parts
  IN  IF p1 > total THEN total ELSE p1

\* a wrong span: one range too many gets the extra frame
SpanOffByOne(i, base, rem) == base + (IF i <= rem THEN 1 ELSE 0)

\* line 388: span = base + (1 if i < rem else 0)
SpanOf(i, base, rem) == base + (IF i < rem THEN 1 ELSE 0)

RECURSIVE SplitLoop(_, _, _, _, _, _)
\* the for loop of lines 387-392, from iteration i on
SplitLoop(i, parts, base, rem, cur, acc) ==
  IF i >= parts THEN acc
  ELSE LET span == SpanOf(i, base, rem)
           s    == cur
           e    == cur + span - 1
       IN  SplitLoop(i + 1, parts, base, rem, e + 1, Append(acc, <<s, e>>))

\* total // parts at line 382 divides by zero when the clamped parts is 0
SplitRaises(start, end, parts) == ClampParts(end - start + 1, parts) = 0

split_ranges(start, end, parts) ==
  LET total == end - start + 1
      p     == ClampParts(total, parts)
      base  == PyFloorDiv(total, p)
      rem   == PyMod(total, p)
  IN  SplitLoop(0, p, base, rem, start, <<>>)

SplitInputs ==
  {a \in [start : (0 - MaxFirst)..MaxFirst,
          end   : (0 - MaxFirst - 2)..(MaxFirst + MaxSpan - 1),
          parts : (0 - 1)..MaxParts] :
     /\ a.end >= a.start - 2
     /\ a.end <= a.start + MaxSpan - 1}

SplitIdle ==
  /\ sp_pc = "idle"
  /\ sp_args = [start |-> 0, end |-> 0, parts |-> 0]
  /\ sp_ret = <<>>

\* split_ranges is called on the drawn arguments
SplitEntry ==
  /\ sp_pc = "call"
  /\ sp_args \in SplitInputs
  /\ sp_ret = <<>>

\* one call of split_ranges on the drawn arguments
SplitCall ==
  /\ sp_pc = "call"
  /\ IF SplitRaises(sp_args.start, sp_args.end, sp_args.parts)
     THEN /\ sp_pc' = "raised"
          /\ sp_ret' = sp_ret
     ELSE /\ sp_pc' = "ret"
          /\ sp_ret' = split_ranges(sp_args.start, sp_args.end, sp_args.parts)
  /\ UNCHANGED <<sp_args, termVars, aloneVars, concatVars, runVars>>

NextSplit == SplitCall

(***************************************************************************)
(* ffmpeg_concat_segments (orchestrator.py 137-283).  A path is a sequence *)
(* of characters (or longer pieces of text that hold no quote).            *)
(***************************************************************************)
Quote == "'"

Backslash == "\\"

RECURSIVE ffconcat_escape_path(_)
\* lines 137-140: every single quote becomes '\''
ffconcat_escape_path(p) ==
  IF p = <<>> THEN <<>>
  ELSE (IF Head(p) = Quote THEN <<Quote, Backslash, Quote, Quote>> ELSE <<Head(p)>>)
       \o ffconcat_escape_path(Tail(p))

\* one line of the list file: file '<escaped path>'
ConcatLine(p) == <<"file ", Quote>> \o ffconcat_escape_path(p) \o <<Quote>>

\* the lines of a list file written for the segments in reverse
ConcatListLinesReversed(segments) ==
  [i \in DOMAIN segments |-> ConcatLine(segments[Len(segments) + 1 - i])]

\* lines 168-169: one line per segment, in list order (after the header line)
ConcatListLines(segments) ==
  [i \in DOMAIN segments |-> ConcatLine(segments[i])]

Exts == {".mov", ".mp4", ".mkv"}

\* lines 211 / 254 / 277
FastStart(ext) == ext \in {".mov", ".mp4"}

\* lines 225-239
VCodec(ext) == IF ext = ".mov" THEN "prores_ks" ELSE "libx264"

ACodecFallback(ext) == IF ext = ".mov" THEN "pcm_s16le" ELSE "aac"

\* lines 195-213
copy_cmd(ext) == [v |-> "copy", a |-> "copy", faststart |-> FastStart(ext)]

\* lines 241-256
reenc_cmd(ext) == [v |-> VCodec(ext), a |-> "copy", faststart |-> FastStart(ext)]

\* lines 264-279
reenc_cmd2(ext) ==
  [v |-> VCodec(ext), a |-> ACodecFallback(ext), faststart |-> FastStart(ext)]

\* a stream copy whose success is ignored: the re-encode runs all the same
AfterCopyIgnoringSuccess(ok, allow_reencode) ==
  IF ~allow_reencode THEN "ret_false" ELSE "reenc"

\* lines 216-221: where the function goes after the stream copy
AfterCopy(ok, allow_reencode) ==
  IF ok THEN "ret_true"
  ELSE IF ~allow_reencode THEN "ret_false"
  ELSE "reenc"

\* lines 259-261
AfterReenc(ok) == IF ok THEN "ret_true" ELSE "reenc2"

\* lines 282-283
AfterReenc2(ok) == IF ok THEN "ret_true" ELSE "ret_false"

ConcatIdle ==
  /\ c_pc = "idle"
  /\ c_in = [segments |-> <<>>, ext |-> ".mov", allow_reencode |-> TRUE,
             caller |-> "none"]
  /\ c_list = [state |-> "none", lines |-> <<>>]
  /\ c_invoked = <<>>
  /\ c_ok = FALSE
  /\ ffmpeg_env = [s \in {"copy", "reenc", "reenc2"} |-> FALSE]

\* the paths a direct caller passes: with and without a quote in them
DirectPaths == {<<"a">>, <<"b">>, <<"c", Quote, "d">>}

DirectSegments ==
  UNION {[1..n -> DirectPaths] : n \in 0..MaxSegs}

\* run_orchestrator after the call of line 1066 has returned `ok`
\* (lines 1067-1076), or has raised
StitchReturn(how) ==
  /\ pc = "stitching"
  /\ IF how = "ret_true"
     THEN /\ pc' = "finish"
          /\ outfile' = IF cfg.no_scratch THEN "final" ELSE "local"
          /\ files' = {}
          /\ UNCHANGED <<rc, exception>>
     ELSE IF how = "ret_false"
     THEN /\ pc' = "done"
          /\ rc' = 2
          /\ UNCHANGED <<outfile, files, exception>>
     ELSE /\ pc' = "crashed"
          /\ exception' = "OSError"
          /\ UNCHANGED <<outfile, files, rc>>
  /\ UNCHANGED <<planVars, procVars, eventVars, scratch, rmtree_called, stitch>>

\* the function leaves: it returns a value or lets an exception through
ConcatLeave(how) ==
  /\ c_pc' = IF how = "raised" THEN "raised" ELSE "ret"
  /\ c_ok' = (how = "ret_true")
  /\ IF c_in.caller = "run" THEN StitchReturn(how) ELSE UNCHANGED runVars

ConcatGoto(where) ==
  IF where \in {"ret_true", "ret_false", "raised"}
  THEN ConcatLeave(where)
  ELSE /\ c_pc' = where
       /\ UNCHANGED <<c_ok, runVars>>

\* lines 159-163: the empty-list check and work_dir.mkdir
ConcatStart ==
  /\ c_pc = "start"
  /\ IF c_in.segments = <<>>
     THEN ConcatGoto("ret_false")
     ELSE \E mkdir_ok \in BOOLEAN :
            ConcatGoto(IF mkdir_ok THEN "manifest" ELSE "raised")
  /\ UNCHANGED <<c_in, c_list, c_invoked, ffmpeg_env, callVars>>

\* lines 164-172: the list file; a failed write leaves the first n lines
ConcatWriteList ==
  /\ c_pc = "manifest"
  /\ \E ok \in BOOLEAN, n \in 0..Len(c_in.segments) :
       /\ ok => n = Len(c_in.segments)
       /\ c_list' = [state |-> IF ok THEN "written" ELSE "failed",
                     lines |-> SubSeq(ConcatListLines(c_in.segments), 1, n)]
       /\ ConcatGoto(IF ok THEN "copy" ELSE "ret_false")
  /\ UNCHANGED <<c_in, c_invoked, ffmpeg_env, callVars>>

\* lines 194-221: 1) stream copy
ConcatCopy ==
  /\ c_pc = "copy"
  /\ LET ok == ffmpeg_env["copy"] IN
       /\ c_invoked' = Append(c_invoked, [cmd |-> copy_cmd(c_in.ext), ok |-> ok])
       /\ ConcatGoto(AfterCopy(ok, c_in.allow_reencode))
  /\ UNCHANGED <<c_in, c_list, ffmpeg_env, callVars>>

\* lines 223-261: 2) re-encode the video, copy the audio
ConcatReenc ==
  /\ c_pc = "reenc"
  /\ LET ok == ffmpeg_env["reenc"] IN
       /\ c_invoked' = Append(c_invoked, [cmd |-> reenc_cmd(c_in.ext), ok |-> ok])
       /\ ConcatGoto(AfterReenc(ok))
  /\ UNCHANGED <<c_in, c_list, ffmpeg_env, callVars>>

\* lines 263-283: 3) re-encode the audio too
ConcatReenc2 ==
  /\ c_pc = "reenc2"
  /\ LET ok == ffmpeg_env["reenc2"] IN
       /\ c_invoked' = Append(c_invoked, [cmd |-> reenc_cmd2(c_in.ext), ok |-> ok])
       /\ ConcatGoto(AfterReenc2(ok))
  /\ UNCHANGED <<c_in, c_list, ffmpeg_env, callVars>>

NextConcat ==
  \/ ConcatStart
  \/ ConcatWriteList
  \/ ConcatCopy
  \/ ConcatReenc
  \/ ConcatReenc2

(***************************************************************************)
(* _terminate_process_tree (orchestrator.py 296-343).  A process is        *)
(* [st, rc]: st is what poll() answers ("none": no process, "running":     *)
(* None, "exited": rc).  The result adds what the call did with the        *)
(* graceful and the forceful signal: "none" | "sent" | "failed".           *)
(***************************************************************************)
SigtermRc == 0 - 15

SigkillRc == 0 - 9

\* what a process answers to the graceful signal: it exits 0, or dies of it
GraceRcs == {0, SigtermRc}

\* what the system calls of one run of the protocol do
SysCalls ==
  [nt : BOOLEAN,               \* os.name == "nt"
   killpg_term_ok : BOOLEAN,   \* os.killpg(pid, SIGTERM) does not raise
   terminate_ok : BOOLEAN,     \* proc.terminate() does not raise
   exits_in_grace : BOOLEAN,   \* poll() is not None within grace_sec
   grace_rc : GraceRcs,
   group_kill_ok : BOOLEAN,    \* os.killpg(pid, SIGKILL) / taskkill does not raise
   kill_ok : BOOLEAN]          \* proc.kill() does not raise

\* lines 304-315
GracefulSent(e) ==
  IF ~e.nt THEN (e.killpg_term_ok \/ e.terminate_ok) ELSE e.terminate_ok

\* lines 324-343
HardKillSent(e) == e.group_kill_ok \/ e.kill_ok

Untouched(proc) ==
  [st |-> proc.st, rc |-> proc.rc, term |-> "none", kill |-> "none"]

\* the protocol without the poll() of the grace window
terminate_without_grace_poll(proc, e) ==
  IF proc.st # "running" THEN Untouched(proc)
  ELSE IF ~GracefulSent(e)
  THEN [Untouched(proc) EXCEPT !.term = "failed"]
  ELSE IF e.exits_in_grace
  THEN [Untouched(proc) EXCEPT !.term = "sent", !.st = "exited", !.rc = e.grace_rc,
                               !.kill = IF HardKillSent(e) THEN "sent" ELSE "failed"]
  ELSE [Untouched(proc) EXCEPT !.term = "sent",
                               !.kill = IF HardKillSent(e) THEN "sent" ELSE "failed"]

terminate_process_tree(proc, e) ==
  IF proc.st # "running" THEN Untouched(proc)             \* lines 298-301
  ELSE IF ~GracefulSent(e)                                \* lines 313-315
  THEN [Untouched(proc) EXCEPT !.term = "failed"]
  ELSE IF e.exits_in_grace                                \* lines 317-321
  THEN [Untouched(proc) EXCEPT !.term = "sent", !.st = "exited", !.rc = e.grace_rc]
  ELSE [Untouched(proc) EXCEPT !.term = "sent",           \* lines 323-343
                               !.kill = IF HardKillSent(e) THEN "sent" ELSE "failed"]

Procs == {[st |-> "none", rc |-> 0], [st |-> "running", rc |-> 0],
          [st |-> "exited", rc |-> 0], [st |-> "exited", rc |-> 1]}

TermIdle ==
  /\ tp_pc = "idle"
  /\ tp_proc = [st |-> "none", rc |-> 0]
  /\ tp_sys = CHOOSE e \in SysCalls : TRUE
  /\ tp_res = Untouched(tp_proc)

\* the protocol is called on a process, under some course of the system calls
TermEntry ==
  /\ tp_pc = "call"
  /\ tp_proc \in Procs
  /\ tp_sys \in SysCalls
  /\ tp_res = Untouched(tp_proc)

\* one call of the protocol on a process
TermCall ==
  /\ tp_pc = "call"
  /\ tp_res' = terminate_process_tree(tp_proc, tp_sys)
  /\ tp_pc' = "ret"
  /\ UNCHANGED <<tp_proc, tp_sys, splitVars, aloneVars, concatVars, runVars>>

NextTerm == TermCall

(***************************************************************************)
(* cleanup_resources (orchestrator.py 921-937).  A child of the list is    *)
(* [range, out, tracked, st, rc, killed]: tracked once it is appended to   *)
(* children (line 982); killed once a SIGKILL is on its way to it.         *)
(***************************************************************************)
\* the states poll() can find a child of the list in
ChildProcs ==
  [st : {"running"}, rc : {0}] \cup [st : {"exited"}, rc : {0, 1, SigtermRc, SigkillRc}]

\* what one call of the protocol can make of a process, over every course
\* the system calls allow
ProtocolResults ==
  [p \in ChildProcs |-> {terminate_process_tree(p, e) : e \in SysCalls}]

\* the child after one call of the protocol with result r
AfterProtocol(ch, r) ==
  [ch EXCEPT !.st = r.st, !.rc = r.rc, !.killed = ch.killed \/ r.kill = "sent"]

\* the protocol on one child of the list; a process started but not yet
\* appended to the list is not reached
TerminateOutcomes(ch) ==
  IF ch.tracked
  THEN {AfterProtocol(ch, r) : r \in ProtocolResults[[st |-> ch.st, rc |-> ch.rc]]}
  ELSE {ch}

RECURSIVE CleanupChildren(_)
\* lines 923-927: the protocol on every child of the list, in list order
CleanupChildren(chs) ==
  IF chs = <<>> THEN {<<>>}
  ELSE {<<h>> \o tl : h \in TerminateOutcomes(Head(chs)),
                      tl \in CleanupChildren(Tail(chs))}

Tracked(chs) == {i \in DOMAIN chs : chs[i].tracked}

TrackedSeq(chs) == SubSeq([i \in DOMAIN chs |-> i], 1, Cardinality(Tracked(chs)))

Ev(name, ch) == [ev |-> name, ch |-> ch]

\* lines 922-937, as the sequence of the steps taken
CleanupSteps(chs, use_scratch) ==
  <<Ev("stop_children", 0)>>
  \o [k \in DOMAIN TrackedSeq(chs) |-> Ev("terminate", TrackedSeq(chs)[k])]
  \o <<Ev("stop_offload", 0)>>
  \o (IF use_scratch THEN <<Ev("rmtree", 0)>> ELSE <<>>)

\* shutil.rmtree(local_scratch_dir, ignore_errors=True): the job outputs and
\* the stitched file live under it; when it fails nothing is removed
Rmtree(use_scratch) ==
  IF use_scratch
  THEN /\ rmtree_called' = TRUE
       /\ \E rm_ok \in BOOLEAN :
            IF rm_ok
            THEN /\ scratch' = "removed"
                 /\ files' = {}
                 /\ outfile' = IF outfile = "local" THEN "none" ELSE outfile
            ELSE UNCHANGED <<scratch, files, outfile>>
  ELSE UNCHANGED <<scratch, files, outfile, rmtree_called>>

\* some renderer has left the list of the running ones before one of a lower
\* index
Inverts(old, new) ==
  \E i, j \in DOMAIN new :
    i < j /\ new[i].st = "running" /\ old[j].st = "running" /\ new[j].st = "exited"

\* a cleanup that only raises the flags
cleanup_flags_only ==
  /\ stop_children_event' = TRUE
  /\ stop_offload_event' = TRUE
  /\ UNCHANGED <<children, inverted, cleanup_log, scratch, files, outfile,
                 rmtree_called>>

\* lines 921-937
cleanup_resources ==
  /\ cleanup_log' = CleanupSteps(children, ~cfg.no_scratch)
  /\ stop_children_event' = TRUE
  /\ children' \in CleanupChildren(children)
  /\ inverted' = (inverted \/ Inverts(children, children'))
  /\ stop_offload_event' = TRUE
  /\ Rmtree(~cfg.no_scratch)

NoCleanup ==
  UNCHANGED <<stop_children_event, children, inverted, stop_offload_event, scratch,
              files, outfile, rmtree_called, cleanup_log>>

(***************************************************************************)
(* auto_concurrency (orchestrator.py 516-560), in whole gigabytes          *)
(***************************************************************************)
Max2(a, b) == IF a >= b THEN a ELSE b

Min2(a, b) == IF a <= b THEN a ELSE b

\* the automatic choice without the RAM budget
auto_concurrency_without_ram(c, h) ==
  LET cap == IF c.max_concurrency = 0 THEN 24 ELSE c.max_concurrency
      threads == IF c.disable_mfr
                 THEN Max2(8, IF c.mfr_threads = 0 THEN 8 ELSE c.mfr_threads)
                 ELSE Max2(16, IF c.mfr_threads = 0 THEN 16 ELSE c.mfr_threads)
  IN  IF h.logical <= 0
      THEN Max2(1, Min2(4, cap))
      ELSE Max2(1, Min2(cap, Min2(Max2(1, h.logical \div threads), h.logical)))

auto_concurrency(c, h) ==
  LET max_c == IF c.max_concurrency = 0 THEN 24 ELSE c.max_concurrency
      ram_per_proc_gb == IF c.ram_per_process_gb <= 0 THEN 32 ELSE c.ram_per_process_gb
      \* usable_ram_gb = total_ram_gb * 0.80; int(usable_ram_gb // ram_per_proc_gb)
      max_by_ram == IF h.total_ram_gb > 0
                    THEN (4 * h.total_ram_gb) \div (5 * ram_per_proc_gb)
                    ELSE h.logical
      target_threads_per_proc ==
        IF c.disable_mfr
        THEN Max2(8, IF c.mfr_threads = 0 THEN 8 ELSE c.mfr_threads)
        ELSE Max2(16, IF c.mfr_threads = 0 THEN 16 ELSE c.mfr_threads)
      base_by_threads == Max2(1, h.logical \div target_threads_per_proc)
  IN  IF h.logical <= 0
      THEN Max2(1, Min2(4, max_c))
      ELSE Max2(1, Min2(Min2(max_c, max_by_ram), Min2(base_by_threads, h.logical)))

(***************************************************************************)
(* run_orchestrator (orchestrator.py 774-1104): planning, lines 790-914    *)
(***************************************************************************)
\* the arguments of the runs whose processes are followed
Cfgs ==
  [start : {1},
   end : 1..MaxFrames,
   output_is_pattern : BOOLEAN,      \* args.output_is_pattern
   looks_like_sequence : {FALSE},    \* looks_like_sequence(args.output)
   concurrency : {0, MaxConc},       \* args.concurrency
   max_concurrency : {24},
   ram_per_process_gb : {32},
   mfr_threads : {0},
   disable_mfr : {FALSE},
   no_scratch : BOOLEAN,
   kill_on_fail : BOOLEAN,
   child_grace_sec : {1},
   dry_run : BOOLEAN]

\* the machine: _cpu_count() and get_total_ram_native(), in gigabytes
Hosts == [logical : {16}, total_ram_gb : {64}]

\* the arguments of the runs whose monitor loop is followed with its clock:
\* two renderers writing the frames of an image sequence
WatchCfgs ==
  [start : {1},
   end : {2},
   output_is_pattern : {TRUE},
   looks_like_sequence : {FALSE},
   concurrency : {2},
   max_concurrency : {24},
   ram_per_process_gb : {32},
   mfr_threads : {0},
   disable_mfr : {FALSE},
   no_scratch : {TRUE},
   kill_on_fail : BOOLEAN,
   child_grace_sec : 0..MaxGrace,
   dry_run : {FALSE}]

\* the arguments and machines of the runs that are only planned
PlanCfgs ==
  [start : {2},
   end : 0..(MaxPlanFrames + 1),     \* --start / --end are not compared
   output_is_pattern : BOOLEAN,
   looks_like_sequence : BOOLEAN,
   concurrency : (0 - 1)..MaxPlanConc,
   max_concurrency : {0 - 1, 0, 2, 24},
   ram_per_process_gb : {0, 32},
   mfr_threads : {0, 32},
   disable_mfr : BOOLEAN,
   no_scratch : BOOLEAN,
   kill_on_fail : {FALSE},
   child_grace_sec : {1},
   dry_run : {TRUE}]

PlanHosts == [logical : {0, 16, 64}, total_ram_gb : {0, 64, 256}]

\* line 790
total_frames == cfg.end - cfg.start + 1

\* line 791
output_is_seq == cfg.output_is_pattern \/ cfg.looks_like_sequence

\* line 833
use_scratch == ~cfg.no_scratch

\* lines 792-794
Requested(c) == IF c.concurrency < 0 THEN 0 ELSE c.concurrency

\* the requested or computed count, whatever the number of frames
WorkersWithoutFrameRule(c, h) ==
  IF Requested(c) >= 1 THEN Requested(c) ELSE auto_concurrency(c, h)

\* lines 797-799
Workers(c, h) ==
  LET conc == IF Requested(c) >= 1 THEN Requested(c) ELSE auto_concurrency(c, h)
  IN  IF c.end - c.start + 1 <= 1 THEN 1 ELSE conc

\* segments for pattern outputs too
WantsSegmentsForPatterns(total, is_seq, conc) == total > 1 /\ conc > 1

\* line 808
WantsSegments(total, is_seq, conc) == total > 1 /\ ~is_seq /\ conc > 1

\* f"{idx:03d}"
Pad3(idx) ==
  IF idx < 10 THEN <<"0", "0", ToString(idx)>>
  ELSE IF idx < 100 THEN <<"0", ToString(idx)>>
  ELSE <<ToString(idx)>>

\* lines 856-866: segment_dir / f"{base}__part_{idx:03d}_{s}-{e}{ext}"
SegmentPath(with_scratch, idx, s, e) ==
  <<IF with_scratch THEN "job/_segments/" ELSE "out/.stmpo_segments/", "final", "__part_">>
  \o Pad3(idx) \o <<"_", ToString(s), "-", ToString(e), ".mov">>

SegmentOutputs(with_scratch, rs) ==
  [i \in DOMAIN rs |-> SegmentPath(with_scratch, i, rs[i][1], rs[i][2])]

\* lines 846-847: the single output file, in the scratch directory if any
LocalOutputPath(with_scratch) ==
  <<IF with_scratch THEN "job/" ELSE "out/", "final", ".mov">>

\* line 952: child_out, for the job of index i (from 1)
child_out(i) ==
  IF segment_outputs # <<>> THEN segment_outputs[i] ELSE LocalOutputPath(use_scratch)

\* lines 952-981: the process of job i right after Popen
NewChild(i) ==
  [range |-> ranges[i], out |-> child_out(i), tracked |-> FALSE, st |-> "running",
   rc |-> 0, killed |-> FALSE]

RunIdle ==
  /\ pc = "idle"
  /\ cfg = [start |-> 1, end |-> 1, output_is_pattern |-> FALSE,
            looks_like_sequence |-> FALSE, concurrency |-> 0,
            max_concurrency |-> 24, ram_per_process_gb |-> 32, mfr_threads |-> 0,
            disable_mfr |-> FALSE, no_scratch |-> TRUE, kill_on_fail |-> FALSE,
            dry_run |-> FALSE]
  /\ host = [logical |-> 0, total_ram_gb |-> 0]
  /\ workers = 0
  /\ concurrency = 0
  /\ single_file_concat_mode = FALSE
  /\ ffmpeg_path = "unset"
  /\ ranges = <<>>
  /\ segment_outputs = <<>>
  /\ next_i = 0
  /\ children = <<>>
  /\ files = {}
  /\ outfile = "none"
  /\ stop_children_event = FALSE
  /\ stop_offload_event = FALSE
  /\ scratch = "none"
  /\ rmtree_called = FALSE
  /\ failures = <<>>
  /\ inverted = FALSE
  /\ rc = 0
  /\ exception = "none"
  /\ cleanup_log = <<>>
  /\ sig = [count |-> 0, running |-> FALSE]
  /\ stitch = [ffmpeg |-> "unset", missing |-> {}]
  /\ w_now = 0
  /\ w_last = [i \in 1..MaxFrames |-> 0]
  /\ w_warned = {}
  /\ w_warnings = [i \in 1..MaxFrames |-> <<>>]

\* lines 790-914
Plan ==
  /\ pc = "plan"
  /\ \E found \in BOOLEAN :
       LET w    == Workers(cfg, host)
           want == WantsSegments(total_frames, output_is_seq, w)
           mode == want /\ found
           conc == IF want /\ ~found THEN 1 ELSE w
       IN  /\ workers' = w
           /\ ffmpeg_path' = IF want THEN (IF found THEN "found" ELSE "missing")
                             ELSE "unset"
           /\ single_file_concat_mode' = mode
           /\ concurrency' = conc
           /\ IF SplitRaises(cfg.start, cfg.end, conc)
              THEN \* line 829 raises ZeroDivisionError
                   /\ pc' = "crashed"
                   /\ exception' = "ZeroDivisionError"
                   /\ UNCHANGED <<ranges, segment_outputs, scratch, stop_offload_event, rc>>
              ELSE LET rs == split_ranges(cfg.start, cfg.end, conc) IN
                   /\ ranges' = rs
                   /\ segment_outputs' = IF mode /\ conc > 1
                                         THEN SegmentOutputs(use_scratch, rs)
                                         ELSE <<>>
                   /\ scratch' = IF use_scratch THEN "present" ELSE "none"
                   /\ IF cfg.dry_run
                      THEN /\ stop_offload_event' = TRUE       \* lines 906-914
                           /\ pc' = "done"
                           /\ rc' = 0
                      ELSE /\ pc' = "spawn_check"
                           /\ UNCHANGED <<stop_offload_event, rc>>
                   /\ UNCHANGED exception
  /\ UNCHANGED <<cfg, host, procVars, files, outfile, rmtree_called,
                 stop_children_event, cleanup_log, sig, stitch, restVars, concatVars>>

(***************************************************************************)
(* run_orchestrator: the spawn loop, lines 947-988                         *)
(***************************************************************************)
\* lines 947-951: the loop test and the stop check; the spawn delay follows
SpawnCheck ==
  /\ pc = "spawn_check"
  /\ pc' = IF next_i >= Len(ranges) \/ stop_children_event
           THEN "monitor" ELSE "spawn_launch"
  /\ UNCHANGED <<planVars, procVars, fileVars, eventVars, rc, exception,
                 stitch, restVars, concatVars>>

\* lines 953-967: subprocess.Popen starts the process, or raises
SpawnLaunch ==
  /\ pc = "spawn_launch"
  /\ \E popen_ok \in BOOLEAN :
       IF popen_ok
       THEN /\ children' = Append(children, NewChild(next_i + 1))
            /\ pc' = "spawn_track"
            /\ UNCHANGED exception
       ELSE /\ pc' = "crashed"
            /\ exception' = "OSError"
            /\ UNCHANGED children
  /\ UNCHANGED <<planVars, next_i, failures, inverted, fileVars, eventVars, rc,
                 stitch, restVars, concatVars>>

\* lines 969-988: children.append(child), the reader threads, next iteration
SpawnTrack ==
  /\ pc = "spawn_track"
  /\ children' = [children EXCEPT ![Len(children)].tracked = TRUE]
  /\ next_i' = next_i + 1
  /\ pc' = "spawn_check"
  /\ UNCHANGED <<planVars, failures, inverted, fileVars, eventVars, rc, exception,
                 stitch, restVars, concatVars>>

(***************************************************************************)
(* The child processes                                                     *)
(***************************************************************************)
Running == pc \in {"spawn_check", "spawn_launch", "spawn_track", "monitor",
                   "stitch", "stitching", "finish", "return"}

\* whether the file a renderer wrote is there when it exits: a single output
\* file or a segment, written into the scratch directory if there is one
\* (the frames of a pattern output are not followed)
CanLeaveFile == ~output_is_seq /\ (cfg.no_scratch \/ scratch = "present")

\* a renderer exits: by itself with 0 or 1, or killed by SIGKILL; it has
\* written its output file or not
ChildExit(i) ==
  /\ Running
  /\ i \in DOMAIN children
  /\ children[i].st = "running"
  /\ \E code \in (IF children[i].killed THEN {SigkillRc} ELSE {0, 1}) :
       children' = [children EXCEPT ![i].st = "exited", ![i].rc = code]
  /\ inverted' = (inverted \/ Inverts(children, children'))
  /\ \E wrote \in BOOLEAN :
       files' = IF wrote /\ CanLeaveFile THEN files \cup {i} ELSE files
  /\ UNCHANGED <<planVars, next_i, failures, outfile, scratch, rmtree_called,
                 eventVars, exitVars, stitch, restVars, concatVars>>

(***************************************************************************)
(* run_orchestrator: the monitor loop, lines 994-1043                      *)
(***************************************************************************)
InSeq(x, s) == \E k \in DOMAIN s : s[k] = x

RECURSIVE CheckCompletionRecordingAgain(_, _, _, _, _)
\* a completion check without the `not in failures` test of line 1031
CheckCompletionRecordingAgain(i, chs, all_done, fails, kill_on_fail) ==
  IF i > Len(chs)
  THEN [all_done |-> all_done, failures |-> fails, cleanup |-> FALSE]
  ELSE IF chs[i].st = "running"
  THEN CheckCompletionRecordingAgain(i + 1, chs, FALSE, fails, kill_on_fail)
  ELSE IF chs[i].rc # 0
  THEN IF kill_on_fail
       THEN [all_done |-> all_done, failures |-> Append(fails, i), cleanup |-> TRUE]
       ELSE CheckCompletionRecordingAgain(i + 1, chs, all_done, Append(fails, i),
                                          kill_on_fail)
  ELSE CheckCompletionRecordingAgain(i + 1, chs, all_done, fails, kill_on_fail)

RECURSIVE CheckCompletionNeverEscalating(_, _, _, _, _)
\* a completion check that records the failures and goes on, kill_on_fail
\* or not
CheckCompletionNeverEscalating(i, chs, all_done, fails, kill_on_fail) ==
  IF i > Len(chs)
  THEN [all_done |-> all_done, failures |-> fails, cleanup |-> FALSE]
  ELSE IF chs[i].st = "running"
  THEN CheckCompletionNeverEscalating(i + 1, chs, FALSE, fails, kill_on_fail)
  ELSE IF chs[i].rc # 0 /\ ~InSeq(i, fails)
  THEN CheckCompletionNeverEscalating(i + 1, chs, all_done, Append(fails, i),
                                      kill_on_fail)
  ELSE CheckCompletionNeverEscalating(i + 1, chs, all_done, fails, kill_on_fail)

RECURSIVE CheckCompletionAlwaysEscalating(_, _, _, _, _)
\* a completion check that calls the cleanup at every failure, kill_on_fail
\* or not
CheckCompletionAlwaysEscalating(i, chs, all_done, fails, kill_on_fail) ==
  IF i > Len(chs)
  THEN [all_done |-> all_done, failures |-> fails, cleanup |-> FALSE]
  ELSE IF chs[i].st = "running"
  THEN CheckCompletionAlwaysEscalating(i + 1, chs, FALSE, fails, kill_on_fail)
  ELSE IF chs[i].rc # 0 /\ ~InSeq(i, fails)
  THEN [all_done |-> all_done, failures |-> Append(fails, i), cleanup |-> TRUE]
  ELSE CheckCompletionAlwaysEscalating(i + 1, chs, all_done, fails, kill_on_fail)

RECURSIVE CheckCompletion(_, _, _, _, _)
\* lines 1025-1037 from child i on; "cleanup" is the break of line 1037
CheckCompletion(i, chs, all_done, fails, kill_on_fail) ==
  IF i > Len(chs)
  THEN [all_done |-> all_done, failures |-> fails, cleanup |-> FALSE]
  ELSE IF chs[i].st = "running"
  THEN CheckCompletion(i + 1, chs, FALSE, fails, kill_on_fail)
  ELSE IF chs[i].rc # 0 /\ ~InSeq(i, fails)
  THEN IF kill_on_fail
       THEN [all_done |-> all_done, failures |-> Append(fails, i), cleanup |-> TRUE]
       ELSE CheckCompletion(i + 1, chs, all_done, Append(fails, i), kill_on_fail)
  ELSE CheckCompletion(i + 1, chs, all_done, fails, kill_on_fail)

\* lines 995-1004: the children of the drained lines get the present time
Drained(last, pids, now) ==
  [i \in DOMAIN last |-> IF i \in pids THEN now ELSE last[i]]

\* the children that are running and have been silent for more than grace
Stale(chs, last, now, grace) ==
  {i \in DOMAIN chs : chs[i].st = "running" /\ now - last[i] > grace}

\* a stall check that sends SIGKILL to the silent children
StallCheckKilling(chs, last, now, grace) ==
  [last     |-> Drained(last, Stale(chs, last, now, grace), now),
   warned   |-> Stale(chs, last, now, grace),
   children |-> [i \in DOMAIN chs |->
                   IF i \in Stale(chs, last, now, grace)
                   THEN [chs[i] EXCEPT !.killed = TRUE] ELSE chs[i]]]

\* a stall check that leaves the time of the children it warns about
StallCheckNotResetting(chs, last, now, grace) ==
  [last     |-> last,
   warned   |-> Stale(chs, last, now, grace),
   children |-> chs]

\* lines 1006-1022: each silent child is warned about and its time set to
\* now; the processes are left as they are
StallCheck(chs, last, now, grace) ==
  [last     |-> Drained(last, Stale(chs, last, now, grace), now),
   warned   |-> Stale(chs, last, now, grace),
   children |-> chs]

\* line 1022: a warning is logged about each child of `warned`, at `now`
Logged(log, warned, now) ==
  [i \in DOMAIN log |-> IF i \in warned THEN Append(log[i], now) ELSE log[i]]

\* a monitor loop whose queue read blocks until a line arrives
MonitorIterBlocking ==
  /\ pc = "monitor"
  /\ \E pids \in SUBSET {i \in DOMAIN children : w_last[i] # w_now} \ {{}} :
       LET s == StallCheck(children, Drained(w_last, pids, w_now), w_now,
                           cfg.child_grace_sec)
           r == CheckCompletion(1, s.children, TRUE, failures, cfg.kill_on_fail)
       IN  /\ w_last' = s.last
           /\ w_warned' = w_warned \cup s.warned
           /\ w_warnings' = Logged(w_warnings, s.warned, w_now)
           /\ failures' = r.failures
           /\ IF r.cleanup
              THEN cleanup_resources
              ELSE /\ children' = s.children
                   /\ UNCHANGED <<stop_children_event, inverted, stop_offload_event,
                                  scratch, files, outfile, rmtree_called, cleanup_log>>
           /\ pc' = IF r.all_done
                    THEN (IF segment_outputs # <<>> THEN "stitch" ELSE "finish")
                    ELSE "monitor"
  /\ UNCHANGED <<planVars, next_i, sig, rc, exception, stitch, w_now, callVars, concatVars>>

\* one iteration of the loop of line 994: the drain of the queue, the stall
\* check and the completion check; pids are the children whose lines are
\* drained (a line of a child whose time is w_now already changes nothing)
MonitorIter ==
  /\ pc = "monitor"
  /\ \E pids \in SUBSET {i \in DOMAIN children : w_last[i] # w_now} :
       LET s == StallCheck(children, Drained(w_last, pids, w_now), w_now,
                           cfg.child_grace_sec)
           r == CheckCompletion(1, s.children, TRUE, failures, cfg.kill_on_fail)
       IN  /\ w_last' = s.last
           /\ w_warned' = w_warned \cup s.warned
           /\ w_warnings' = Logged(w_warnings, s.warned, w_now)
           /\ failures' = r.failures
           /\ IF r.cleanup
              THEN cleanup_resources
              ELSE /\ children' = s.children
                   /\ UNCHANGED <<stop_children_event, inverted, stop_offload_event,
                                  scratch, files, outfile, rmtree_called,
                                  cleanup_log>>
           /\ pc' = IF r.all_done
                    THEN (IF segment_outputs # <<>> THEN "stitch" ELSE "finish")
                    ELSE "monitor"
  /\ UNCHANGED <<planVars, next_i, sig, rc, exception, stitch, w_now, callVars,
                 concatVars>>

\* time passes while the monitor loop runs
Tick ==
  /\ pc = "monitor"
  /\ w_now < MaxTime
  /\ w_now' = w_now + 1
  /\ UNCHANGED <<planVars, procVars, fileVars, eventVars, exitVars, stitch,
                 w_last, w_warned, w_warnings, callVars, concatVars>>

(***************************************************************************)
(* run_orchestrator: stitching, lines 1048-1076                            *)
(***************************************************************************)
\* ffmpeg_concat_segments takes keyword arguments only (the bare * of line
\* 144): no positional parameter
ConcatPositionalParams == 0

\* line 1066 passes ffmpeg, segment_outputs, local_output_path and logger
\* by position
StitchPositionalArgs == 4

\* whether the call of line 1066 binds its arguments; if not it raises
\* TypeError before the function body runs
StitchCallBinds == StitchPositionalArgs <= ConcatPositionalParams

\* line 1059
Missing == {i \in DOMAIN segment_outputs : i \notin files}

Strategies == {"copy", "reenc", "reenc2"}

\* lines 1048-1066
Stitch ==
  /\ pc = "stitch"
  /\ \E found \in BOOLEAN, env \in [Strategies -> BOOLEAN] :
       /\ stitch' = [ffmpeg |-> IF found THEN "found" ELSE "missing",
                     missing |-> Missing]
       /\ IF ~found \/ Missing # {}
          THEN /\ pc' = "done"
               /\ rc' = 2
               /\ UNCHANGED <<exception, concatVars>>
          ELSE /\ ffmpeg_env' = env
               /\ IF StitchCallBinds
                  THEN /\ pc' = "stitching"
                       /\ c_pc' = "start"
                       /\ c_in' = [segments |-> segment_outputs, ext |-> ".mov",
                                   allow_reencode |-> TRUE, caller |-> "run"]
                       /\ UNCHANGED <<rc, exception, c_list, c_invoked, c_ok>>
                  ELSE /\ pc' = "crashed"
                       /\ exception' = "TypeError"
                       /\ UNCHANGED <<rc, c_pc, c_in, c_list, c_invoked, c_ok>>
  /\ UNCHANGED <<planVars, procVars, fileVars, eventVars, restVars>>

(***************************************************************************)
(* run_orchestrator: the end of the run, lines 1078-1104                   *)
(***************************************************************************)
\* src.exists() at line 1087: the stitched file, or the file the only job wrote
LocalOutputExists ==
  \/ outfile = "local"
  \/ segment_outputs = <<>> /\ files # {} /\ scratch = "present"

\* lines 1078-1097: stop the offloader, copy the single file, remove scratch
Finalize ==
  /\ pc = "finish"
  /\ stop_offload_event' = TRUE
  /\ \E copy_ok \in BOOLEAN, rm_ok \in BOOLEAN :
       LET copied == use_scratch /\ ~output_is_seq /\ LocalOutputExists /\ copy_ok
       IN  /\ outfile' = IF copied THEN "final"
                         ELSE IF outfile = "local" /\ use_scratch /\ rm_ok THEN "none"
                         ELSE outfile
           /\ scratch' = IF use_scratch /\ rm_ok THEN "removed" ELSE scratch
           /\ rmtree_called' = (rmtree_called \/ use_scratch)
           /\ files' = IF use_scratch /\ rm_ok THEN {} ELSE files
  /\ pc' = "return"
  /\ UNCHANGED <<planVars, procVars, stop_children_event, cleanup_log, sig, rc,
                 exception, stitch, restVars, concatVars>>

\* an exit code that forgets the interrupt
ExitCodeWithoutInterrupt(stopped, fails) == IF fails # <<>> THEN 1 ELSE 0

\* lines 1099-1102
ExitCode(stopped, fails) ==
  IF stopped /\ fails = <<>> THEN 130
  ELSE IF fails # <<>> THEN 1 ELSE 0

\* lines 1099-1104
Return ==
  /\ pc = "return"
  /\ rc' = ExitCode(stop_children_event, failures)
  /\ pc' = "done"
  /\ UNCHANGED <<planVars, procVars, fileVars, eventVars, exception, stitch,
                 restVars, concatVars>>

(***************************************************************************)
(* The signal handler, lines 939-945: it runs in the main thread, between  *)
(* two steps of run_orchestrator, once the handlers are installed          *)
(***************************************************************************)
SigHandler ==
  /\ Running
  /\ sig.count < MaxSignals
  /\ sig' = [count |-> sig.count + 1,
             running |-> sig.running
                         \/ \E i \in DOMAIN children : children[i].st = "running"]
  /\ cleanup_resources
  /\ UNCHANGED <<planVars, next_i, failures, exitVars, stitch, restVars,
                 concatVars>>

(***************************************************************************)
(* build_affinity_blocks (orchestrator.py 594-607)                         *)
(***************************************************************************)
MaxCpuId == 3
MaxPoolIds == 3
MaxPools == 2
MaxBlocks == 3

\* lines 597-599: all_cpus.extend(p) for each pool in turn
RECURSIVE Flatten(_)
Flatten(pools) ==
  IF pools = <<>> THEN <<>> ELSE Head(pools) \o Flatten(Tail(pools))

\* the flattened list as it is, repeated ids included
KeepDuplicates(s) == s

\* line 600: list(dict.fromkeys(all_cpus)) keeps the first occurrence of each id
RECURSIVE DictFromKeys(_)
DictFromKeys(s) ==
  IF s = <<>> THEN <<>>
  ELSE LET front == DictFromKeys(SubSeq(s, 1, Len(s) - 1))
           last  == s[Len(s)]
       IN  IF \E i \in DOMAIN front : front[i] = last
           THEN front ELSE Append(front, last)

\* lines 604-606: blocks[i % concurrency].append(cpu), i counted from 0;
\* block k of the code is element k + 1 of the sequence
RECURSIVE Distribute(_, _, _)
Distribute(all_cpus, i, blocks) ==
  IF i >= Len(all_cpus) THEN blocks
  ELSE LET k == (i % Len(blocks)) + 1
       IN  Distribute(all_cpus, i + 1,
                      [blocks EXCEPT ![k] = Append(@, all_cpus[i + 1])])

build_affinity_blocks(n, pools) ==
  IF n <= 0 THEN <<>>
  ELSE LET all_cpus == DictFromKeys(Flatten(pools))
       IN  IF all_cpus = <<>> THEN <<>>
           ELSE Distribute(all_cpus, 0, [k \in 1..n |-> <<>>])

SeqsUpTo(S, n) == UNION {[1..m -> S] : m \in 0..n}

\* the list flat cut into Len(cuts) + 1 consecutive pools at the positions cuts
PoolsFrom(flat, cuts) ==
  [p \in 1..(Len(cuts) + 1) |->
     SubSeq(flat,
            (IF p = 1 THEN 0 ELSE cuts[p - 1]) + 1,
            IF p = Len(cuts) + 1 THEN Len(flat) ELSE cuts[p])]

\* the lists of at most MaxPools pools that hold at most MaxPoolIds ids in
\* all, repeated ids and empty pools included
PoolLists ==
  {<<>>} \cup
  UNION {{PoolsFrom(flat, cuts) :
            cuts \in {c \in [1..(k - 1) -> 0..Len(flat)] :
                        \A i \in 1..(k - 2) : c[i] <= c[i + 1]}} :
         flat \in SeqsUpTo(0..(MaxCpuId - 1), MaxPoolIds), k \in 1..MaxPools}

AffinityInputs == [concurrency : (0 - 1)..MaxBlocks, pools : PoolLists]

AffIdle ==
  /\ ab_pc = "idle"
  /\ ab_args = [concurrency |-> 0, pools |-> <<>>]
  /\ ab_ret = <<>>

\* build_affinity_blocks is called on the drawn arguments
AffEntry ==
  /\ ab_pc = "call"
  /\ ab_args \in AffinityInputs
  /\ ab_ret = <<>>

\* one call of build_affinity_blocks on the drawn arguments
AffCall ==
  /\ ab_pc = "call"
  /\ ab_ret' = build_affinity_blocks(ab_args.concurrency, ab_args.pools)
  /\ ab_pc' = "ret"
  /\ UNCHANGED <<ab_args, notAff>>

NextAff == AffCall

(***************************************************************************)
(* stage_project_to_local (orchestrator.py 405-449)                        *)
(***************************************************************************)
\* line 437: for attempt in range(1, 4)
StageAttempts == 3

\* the project paths, a local one and one on a share
Projects == {<<"D:", "shots", "a.aep">>, <<"//nas", "shots", "b.aepx">>}

\* what the file system answers during one call
StageEnvs ==
  [project : Projects,
   exists : {"yes", "no", "error"},       \* src.exists(), line 412
   mkdir_ok : BOOLEAN,                    \* staging_dir.mkdir, line 426
   same : BOOLEAN,                        \* lines 430-433
   copy : [1..StageAttempts -> BOOLEAN]]  \* shutil.copy2 of each attempt

\* lines 425-427: local_scratch_dir / "_project" / src.name
StagedPath(project) == <<"scratch", "_project", project[Len(project)]>>

\* one attempt and no other
NoMoreAttempts(attempt) == FALSE

\* line 437: the loop goes on to attempt + 1
MoreAttempts(attempt) == attempt + 1 < StageAttempts + 1

StageIdle ==
  /\ sg_pc = "idle"
  /\ sg_env = [project |-> <<>>, exists |-> "no", mkdir_ok |-> FALSE, same |-> FALSE,
               copy |-> [a \in 1..StageAttempts |-> FALSE]]
  /\ sg_attempts = <<>>
  /\ sg_ret = <<>>

\* stage_project_to_local is called, the file system being in some state
StageEntry ==
  /\ sg_pc = "start"
  /\ sg_env \in StageEnvs
  /\ sg_attempts = <<>>
  /\ sg_ret = <<>>

\* lines 410-435: the checks before the copy loop; an exception of any of
\* them is caught at line 446 and the original path returned at line 449
StageCheck ==
  /\ sg_pc = "start"
  /\ IF \/ sg_env.exists # "yes"
        \/ ~sg_env.mkdir_ok
        \/ sg_env.same
     THEN /\ sg_pc' = "ret"
          /\ sg_ret' = sg_env.project
     ELSE /\ sg_pc' = "copy"
          /\ sg_ret' = sg_ret
  /\ UNCHANGED <<sg_env, sg_attempts, notStage>>

\* lines 437-444 and 449: one attempt of the copy loop
StageCopy ==
  /\ sg_pc = "copy"
  /\ LET attempt == Len(sg_attempts) + 1
         ok      == sg_env.copy[attempt]
     IN  /\ sg_attempts' = Append(sg_attempts, ok)
         /\ IF ok
            THEN /\ sg_pc' = "ret"
                 /\ sg_ret' = StagedPath(sg_env.project)
            ELSE IF MoreAttempts(attempt)
                 THEN /\ sg_pc' = "copy"       \* after time.sleep(0.5 * attempt)
                      /\ sg_ret' = sg_ret
                 ELSE /\ sg_pc' = "ret"
                      /\ sg_ret' = sg_env.project
  /\ UNCHANGED <<sg_env, notStage>>

NextStage == StageCheck \/ StageCopy

(***************************************************************************)
(* offload_loop (orchestrator.py 644-678)                                  *)
(***************************************************************************)
MaxPasses == 2

\* the entries that local_dir can hold: two frames of the output and the
\* directory of the segments
OffloadEntries == {"out_0001.png", "out_0002.png", "_segments"}

\* lines 658-661: p.is_file() and matcher(p)
Qualifies(p) == p \in {"out_0001.png", "out_0002.png"}

\* no file counts as copied
NeverCopied(key, copied) == FALSE

\* line 663: key in copied
AlreadyCopied(key, copied) == key \in copied

OffloadIdle ==
  /\ of_pc = "idle"
  /\ of_dir = {}
  /\ of_todo = {}
  /\ of_copied = {}
  /\ of_hist = [p \in OffloadEntries |-> <<>>]
  /\ of_stop = FALSE
  /\ of_pass = 0
  /\ of_at_stop = {}

\* lines 652-653: the thread starts with an empty record, local_dir holding
\* what the renderers have written so far
OffloadEntry ==
  /\ of_pc = "loop"
  /\ of_dir \in SUBSET OffloadEntries
  /\ of_todo = {}
  /\ of_copied = {}
  /\ of_hist = [p \in OffloadEntries |-> <<>>]
  /\ of_stop = FALSE
  /\ of_pass = 0
  /\ of_at_stop = {}

\* a loop that goes on listing whatever the event says
OffloadPassStartIgnoringStop ==
  /\ of_pc = "loop"
  /\ of_pass < MaxPasses
  /\ \E listed \in BOOLEAN :
       IF listed
       THEN /\ of_pc' = "pass"
            /\ of_todo' = of_dir
            /\ of_pass' = of_pass
       ELSE /\ of_pc' = "loop"
            /\ of_todo' = of_todo
            /\ of_pass' = of_pass + 1
  /\ UNCHANGED <<of_dir, of_copied, of_hist, of_stop, of_at_stop,
                 notOffload>>

\* lines 655-657: the loop test; local_dir.iterdir() lists the directory, or
\* raises, which ends the pass (lines 673-676)
OffloadPassStart ==
  /\ of_pc = "loop"
  /\ ~of_stop
  /\ of_pass < MaxPasses
  /\ \E listed \in BOOLEAN :
       IF listed
       THEN /\ of_pc' = "pass"
            /\ of_todo' = of_dir
            /\ of_pass' = of_pass
       ELSE /\ of_pc' = "loop"
            /\ of_todo' = of_todo
            /\ of_pass' = of_pass + 1
  /\ UNCHANGED <<of_dir, of_copied, of_hist, of_stop, of_at_stop,
                 notOffload>>

\* lines 657-671: the body of the for loop for one entry
OffloadFile(p) ==
  /\ of_pc = "pass"
  /\ p \in of_todo
  /\ of_todo' = of_todo \ {p}
  /\ IF ~Qualifies(p)
     THEN UNCHANGED <<of_copied, of_hist>>
     ELSE IF AlreadyCopied(p, of_copied)
          THEN /\ of_hist' = [of_hist EXCEPT ![p] = Append(@, "skipped")]
               /\ of_copied' = of_copied
          ELSE \E ok \in BOOLEAN :      \* shutil.copy2, lines 667-671
                 /\ of_copied' = IF ok THEN of_copied \cup {p} ELSE of_copied
                 /\ of_hist' = [of_hist EXCEPT
                                  ![p] = Append(@, IF ok THEN "copied" ELSE "failed")]
  /\ UNCHANGED <<of_pc, of_dir, of_stop, of_pass, of_at_stop,
                 notOffload>>

\* lines 673-676: the pass is over, by the end of the listing or by an
\* exception of the listing, and the thread sleeps poll_sec
OffloadPassEnd ==
  /\ of_pc = "pass"
  /\ \E raised \in BOOLEAN : raised \/ of_todo = {}
  /\ of_pc' = "loop"
  /\ of_todo' = {}
  /\ of_pass' = of_pass + 1
  /\ UNCHANGED <<of_dir, of_copied, of_hist, of_stop, of_at_stop,
                 notOffload>>

\* lines 655 and 678: the loop test finds the event set
OffloadStopped ==
  /\ of_pc = "loop"
  /\ of_stop
  /\ of_pc' = "stopped"
  /\ UNCHANGED <<of_dir, of_todo, of_copied, of_hist, of_stop, of_pass, of_at_stop,
                 notOffload>>

\* a renderer writes a new entry; a listing in progress may or may not yield it
EntryAppears(p) ==
  /\ of_pc \in {"loop", "pass"}
  /\ p \notin of_dir
  /\ of_dir' = of_dir \cup {p}
  /\ \E yielded \in BOOLEAN :
       of_todo' = IF of_pc = "pass" /\ yielded THEN of_todo \cup {p} ELSE of_todo
  /\ UNCHANGED <<of_pc, of_copied, of_hist, of_stop, of_pass, of_at_stop,
                 notOffload>>

\* line 1078: the main thread sets stop_offload_event
OffloadStopSet ==
  /\ of_pc \in {"loop", "pass"}
  /\ ~of_stop
  /\ of_stop' = TRUE
  /\ of_at_stop' = of_dir
  /\ UNCHANGED <<of_pc, of_dir, of_todo, of_copied, of_hist, of_pass, notOffload>>

NextOffload ==
  \/ OffloadPassStart
  \/ \E p \in OffloadEntries : OffloadFile(p)
  \/ OffloadPassEnd
  \/ OffloadStopped
  \/ \E p \in OffloadEntries : EntryAppears(p)
  \/ OffloadStopSet

(***************************************************************************)
(* The kill tool (stmpo_stop.py): main, lines 126-199, and _kill_tree       *)
(***************************************************************************)
MaxPid == 4
MaxChildPids == 2
MaxLogPids == 1

\* runner_pid = None; no text of digits in the pid file
NoPid == 0 - 1

SetsUpTo(S, n) == {T \in SUBSET S : Cardinality(T) <= n}

\* what the files hold during one call: the pid file at its two reads (it
\* may be removed in between), and the pids named by the log file
StopEnvs ==
  {e \in [read1 : {NoPid} \cup 0..MaxPid,
          read2 : {NoPid} \cup 0..MaxPid,
          log_pids : SetsUpTo(0..MaxPid, MaxLogPids),
          running : BOOLEAN] :
     e.read2 \in {e.read1, NoPid}}

ChildPidFiles ==
  [exists : BOOLEAN, pids : SetsUpTo(0..MaxPid, MaxChildPids)]

\* lines 39-40, 49-50, 64-65, 72-73: only the pids above 1 are gathered
Gathered(S) == {p \in S : p > 1}

\* line 173: sorted(pids)
RECURSIVE Sorted(_)
Sorted(S) ==
  IF S = {} THEN <<>>
  ELSE LET least == CHOOSE x \in S : \A y \in S : x <= y
       IN  <<least>> \o Sorted(S \ {least})

\* a gathering that reads the child pid file without asking whether it exists
PidsListOfAbsentFiles(e, child_file) ==
  LET pids == (IF e.read1 # NoPid THEN {e.read1} ELSE {})
              \cup Gathered(child_file.pids)
              \cup Gathered(e.log_pids)
  IN  Sorted({p \in pids : p > 1})

\* lines 151-173
PidsList(e, child_file) ==
  LET pids == (IF e.read1 # NoPid THEN {e.read1} ELSE {})
              \cup (IF child_file.exists THEN Gathered(child_file.pids) ELSE {})
              \cup Gathered(e.log_pids)
  IN  Sorted({p \in pids : p > 1})

\* the loop skips no pid
SkipsNone(pid, runner_pid) == FALSE

\* lines 185-186
SkipsRunner(pid, runner_pid) == runner_pid # NoPid /\ pid = runner_pid

\* lines 79-123: nothing for a pid <= 1 or a process that is gone; otherwise
\* the process is terminated, then killed
kill_tree(pid, alive) == IF pid <= 1 THEN alive ELSE alive \ {pid}

StopIdle ==
  /\ ks_pc = "idle"
  /\ ks_env = [read1 |-> NoPid, read2 |-> NoPid, log_pids |-> {}, running |-> FALSE]
  /\ ks_child_file = [exists |-> FALSE, pids |-> {}]
  /\ ks_todo = <<>>
  /\ ks_runner_pid = NoPid
  /\ ks_calls = <<>>
  /\ ks_alive = {}
  /\ ks_rc = NoPid

\* the tool is started, while the run is going on or after it has ended
StopEntry ==
  /\ ks_pc = "gather"
  /\ ks_env \in StopEnvs
  /\ ks_child_file \in ChildPidFiles
  /\ ks_todo = <<>>
  /\ ks_runner_pid = NoPid
  /\ ks_calls = <<>>
  /\ ks_alive = (IF ks_env.running THEN 2..MaxPid ELSE {})
  /\ ks_rc = NoPid

\* lines 150-182
StopGather ==
  /\ ks_pc = "gather"
  /\ ks_todo' = PidsList(ks_env, ks_child_file)
  /\ ks_runner_pid' = ks_env.read2
  /\ ks_pc' = "kill"
  /\ UNCHANGED <<ks_env, ks_child_file, ks_calls, ks_alive, ks_rc, notStop>>

\* lines 184-187: one iteration of the loop over pids_list
StopKillNext ==
  /\ ks_pc = "kill"
  /\ ks_todo # <<>>
  /\ LET pid == Head(ks_todo)
     IN  IF SkipsRunner(pid, ks_runner_pid)
         THEN UNCHANGED <<ks_calls, ks_alive>>
         ELSE /\ ks_calls' = Append(ks_calls, pid)
              /\ ks_alive' = kill_tree(pid, ks_alive)
  /\ ks_todo' = Tail(ks_todo)
  /\ UNCHANGED <<ks_pc, ks_env, ks_child_file, ks_runner_pid, ks_rc, notStop>>

\* lines 189-190
StopKillRunner ==
  /\ ks_pc = "kill"
  /\ ks_todo = <<>>
  /\ IF ks_runner_pid # NoPid
     THEN /\ ks_calls' = Append(ks_calls, ks_runner_pid)
          /\ ks_alive' = kill_tree(ks_runner_pid, ks_alive)
     ELSE UNCHANGED <<ks_calls, ks_alive>>
  /\ ks_pc' = "cleanup"
  /\ UNCHANGED <<ks_env, ks_child_file, ks_todo, ks_runner_pid, ks_rc, notStop>>

\* lines 192-199: the child pid file is unlinked if that works, and 0 returned
StopReturn ==
  /\ ks_pc = "cleanup"
  /\ \E unlinked \in BOOLEAN :
       ks_child_file' = IF ks_child_file.exists /\ unlinked
                        THEN [exists |-> FALSE, pids |-> {}]
                        ELSE ks_child_file
  /\ ks_rc' = 0
  /\ ks_pc' = "ret"
  /\ UNCHANGED <<ks_env, ks_todo, ks_runner_pid, ks_calls, ks_alive, notStop>>

NextStop == StopGather \/ StopKillNext \/ StopKillRunner \/ StopReturn

(***************************************************************************)
(* stream_reader (orchestrator.py 357-368), its two threads per renderer   *)
(* (lines 984-988) and the drain of the queue (lines 995-1004)             *)
(***************************************************************************)
MaxLines == 2

\* the pids of the renderers whose output is followed
StreamPids == {101, 102}

Tags == {"STDOUT", "STDERR"}

StreamsIdle ==
  /\ st_emitted = [p \in StreamPids |-> <<>>]
  /\ st_pipe = [p \in StreamPids |-> [t \in Tags |-> <<>>]]
  /\ st_q = <<>>
  /\ st_log = <<>>
  /\ st_exited = {}
  /\ st_phase = "drain"

\* the renderer p writes its next line to one of its two pipes
ChildEmit(p, t) ==
  /\ p \notin st_exited
  /\ Len(st_emitted[p]) < MaxLines
  /\ LET n == Len(st_emitted[p]) + 1
     IN  /\ st_emitted' = [st_emitted EXCEPT ![p] = Append(@, t)]
         /\ st_pipe' = [st_pipe EXCEPT ![p][t] = Append(@, n)]
  /\ UNCHANGED <<st_q, st_log, st_exited, st_phase, notStreams>>

\* lines 360-363: the thread of stream t of renderer p reads a line and
\* puts (pid, tag, line) on the queue
StreamRead(p, t) ==
  /\ st_pipe[p][t] # <<>>
  /\ st_q' = Append(st_q, [pid |-> p, tag |-> t, line |-> Head(st_pipe[p][t])])
  /\ st_pipe' = [st_pipe EXCEPT ![p][t] = Tail(@)]
  /\ UNCHANGED <<st_emitted, st_log, st_exited, st_phase, notStreams>>

\* lines 998-1002: the monitor loop takes one item off the queue and logs it
DrainOne ==
  /\ st_phase = "drain"
  /\ st_q # <<>>
  /\ st_log' = Append(st_log, Head(st_q))
  /\ st_q' = Tail(st_q)
  /\ UNCHANGED <<st_emitted, st_pipe, st_exited, st_phase, notStreams>>

\* lines 1003-1004: get_nowait finds the queue empty and the drain is over
DrainEmpty ==
  /\ st_phase = "drain"
  /\ st_q = <<>>
  /\ st_phase' = "check"
  /\ UNCHANGED <<st_emitted, st_pipe, st_q, st_log, st_exited, notStreams>>

\* lines 1024-1043: the loop is left when poll() finds every renderer
\* exited, and goes back to the drain otherwise
StreamsCheck ==
  /\ st_phase = "check"
  /\ st_phase' = IF st_exited = StreamPids THEN "left" ELSE "drain"
  /\ UNCHANGED <<st_emitted, st_pipe, st_q, st_log, st_exited, notStreams>>

\* the renderer p exits; what it wrote stays in its pipes until it is read
StreamsChildExit(p) ==
  /\ p \notin st_exited
  /\ st_exited' = st_exited \cup {p}
  /\ UNCHANGED <<st_emitted, st_pipe, st_q, st_log, st_phase, notStreams>>

NextStreams ==
  \/ \E p \in StreamPids, t \in Tags : ChildEmit(p, t)
  \/ \E p \in StreamPids, t \in Tags : StreamRead(p, t)
  \/ DrainOne
  \/ DrainEmpty
  \/ StreamsCheck
  \/ \E p \in StreamPids : StreamsChildExit(p)

(***************************************************************************)
(* build_output_matcher (orchestrator.py 53-90).  A name is a sequence of  *)
(* characters; the specification is given as its three parts, the code     *)
(* sees their concatenation.                                               *)
(***************************************************************************)
MaxDigits == 3

NL == "\n"

DigitChars == {"0", "2", "4"}

\* int(c) of a digit
DigitVal(c) == CASE c = "0" -> 0 [] c = "2" -> 2 [] c = "4" -> 4

RECURSIVE IntOf(_)
\* int(digits_s), line 83
IntOf(s) ==
  IF s = <<>> THEN 0 ELSE 10 * IntOf(SubSeq(s, 1, Len(s) - 1)) + DigitVal(s[Len(s)])

\* str.lower() and re.IGNORECASE on the letters of the model
LowerChar(c) == CASE c = "N" -> "n" [] c = "P" -> "p" [] OTHER -> c

LowerSeq(s) == [k \in DOMAIN s |-> LowerChar(s[k])]

\* `$`: at the end of the string, or just before a line break that ends it
DollarAt(s, k) == k = Len(s) \/ (k = Len(s) - 1 /\ s[Len(s)] = NL)

\* rx.match(name) for rx = ^escape(prefix)\d{digits}escape(suffix)$ compiled
\* with re.IGNORECASE (lines 70, 78, 84)
RxMatch(prefix, digits, suffix, name) ==
  LET a == Len(prefix)
      n == a + digits + Len(suffix)
  IN  /\ Len(name) >= n
      /\ DollarAt(name, n)
      /\ LowerSeq(SubSeq(name, 1, a)) = LowerSeq(prefix)
      /\ \A k \in (a + 1)..(a + digits) : name[k] \in DigitChars
      /\ LowerSeq(SubSeq(name, a + digits + 1, n)) = LowerSeq(suffix)

\* the end of the run of characters of `set` that starts at position i
RunEnd(s, i, set) ==
  CHOOSE j \in (i - 1)..Len(s) :
    /\ \A k \in i..j : s[k] \in set
    /\ j < Len(s) => s[j + 1] \notin set

Greatest(S) == CHOOSE x \in S : \A y \in S : y <= x

Smallest(S) == CHOOSE x \in S : \A y \in S : x <= y

\* line 66: the positions of a "[" followed by a run of "#" and "0" and "]"
AeStarts(base) ==
  {i \in DOMAIN base :
     /\ base[i] = "["
     /\ RunEnd(base, i + 1, {"#", "0"}) > i
     /\ RunEnd(base, i + 1, {"#", "0"}) < Len(base)
     /\ base[RunEnd(base, i + 1, {"#", "0"}) + 1] = "]"}

\* line 74: the lengths of a prefix followed by three "#" or more and then
\* by nothing or by one extension
HashStarts(base) ==
  {i \in 0..Len(base) :
     LET j == RunEnd(base, i + 1, {"#"})
     IN  /\ j - i >= 3
         /\ \/ j = Len(base)
            \/ /\ base[j + 1] = "."
               /\ \A k \in (j + 2)..Len(base) : base[k] # "."}

\* line 81: the positions of a "%" followed by a run of digits and "d"
PrintfStarts(base) ==
  {i \in DOMAIN base :
     /\ base[i] = "%"
     /\ RunEnd(base, i + 1, DigitChars) < Len(base)
     /\ base[RunEnd(base, i + 1, DigitChars) + 1] = "d"}

Rx(prefix, digits, suffix) ==
  [kind |-> "rx", prefix |-> prefix, digits |-> digits, suffix |-> suffix]

\* lines 63-90: the predicate built for the file name `base`
build_output_matcher(base) ==
  IF AeStarts(base) # {}
  THEN LET i == Greatest(AeStarts(base))
           j == RunEnd(base, i + 1, {"#", "0"})
       IN  Rx(SubSeq(base, 1, i - 1), j - i, SubSeq(base, j + 2, Len(base)))
  ELSE IF HashStarts(base) # {}
  THEN LET i == Smallest(HashStarts(base))
           j == RunEnd(base, i + 1, {"#"})
       IN  Rx(SubSeq(base, 1, i), j - i, SubSeq(base, j + 1, Len(base)))
  ELSE IF PrintfStarts(base) # {}
  THEN LET i == Greatest(PrintfStarts(base))
           j == RunEnd(base, i + 1, DigitChars)
           run == SubSeq(base, i + 1, j)
           digits_s == IF run # <<>> /\ run[1] = "0" THEN Tail(run) ELSE run
       IN  Rx(SubSeq(base, 1, i - 1),
              IF digits_s = <<>> THEN 1 ELSE IntOf(digits_s),
              SubSeq(base, j + 2, Len(base)))
  ELSE [kind |-> "exact", prefix |-> base, digits |-> 0, suffix |-> <<>>]

\* the predicate applied to the name of a file (lines 71, 79, 85, 88)
Accepts(matcher, name) ==
  IF matcher.kind = "rx"
  THEN RxMatch(matcher.prefix, matcher.digits, matcher.suffix, name)
  ELSE LowerSeq(name) = LowerSeq(matcher.prefix)

\* the counter tokens, each with its width
Tokens ==
  {[text |-> <<"[", "#", "#", "]">>, width |-> 2],
   [text |-> <<"[", "0", "0", "0", "]">>, width |-> 3],
   [text |-> <<"#", "#", "#">>, width |-> 3],
   [text |-> <<"%", "0", "2", "d">>, width |-> 2],
   [text |-> <<"%", "2", "d">>, width |-> 2],
   [text |-> <<>>, width |-> 0]}

OutputSpecs ==
  [pre : {<<"n">>, <<"N", "_">>}, token : Tokens, suf : {<<".", "p">>, <<>>}]

BaseOf(spec) == spec.pre \o spec.token.text \o spec.suf

\* the runs of at most n digits
DigitRuns(n) == UNION {[1..k -> {"2", "4"}] : k \in 0..n}

\* the names of the files found in the output directory
FileNames ==
  {p \o d \o s \o t :
     p \in {<<>>, <<"n">>, <<"N">>, <<"o">>, <<"n", "_">>},
     d \in DigitRuns(MaxDigits),
     s \in {<<>>, <<".", "p">>, <<".", "P">>, <<".", "q">>},
     t \in {<<>>, <<NL>>}}

MatchIdle ==
  /\ mt_pc = "idle"
  /\ mt_spec = [pre |-> <<>>, token |-> [text |-> <<>>, width |-> 0], suf |-> <<>>]
  /\ mt_name = <<>>
  /\ mt_ok = FALSE

\* a predicate is built for an output specification and asked about a name
MatchEntry ==
  /\ mt_pc = "call"
  /\ mt_spec \in OutputSpecs
  /\ mt_name \in FileNames
  /\ mt_ok = FALSE

\* build_output_matcher(output_spec)(p)
MatchCall ==
  /\ mt_pc = "call"
  /\ mt_ok' = Accepts(build_output_matcher(BaseOf(mt_spec)), mt_name)
  /\ mt_pc' = "ret"
  /\ UNCHANGED <<mt_spec, mt_name, notMatch>>

NextMatch == MatchCall

(***************************************************************************)
(* The specifications                                                      *)
(***************************************************************************)
\* the state of run_orchestrator on entry, for arguments c on machine h
RunEntry(c, h) ==
  /\ cfg = c
  /\ host = h
  /\ pc = "plan"
  /\ workers = 0
  /\ concurrency = 0
  /\ single_file_concat_mode = FALSE
  /\ ffmpeg_path = "unset"
  /\ ranges = <<>>
  /\ segment_outputs = <<>>
  /\ next_i = 0
  /\ children = <<>>
  /\ files = {}
  /\ outfile = "none"
  /\ stop_children_event = FALSE
  /\ stop_offload_event = FALSE
  /\ scratch = "none"
  /\ rmtree_called = FALSE
  /\ failures = <<>>
  /\ inverted = FALSE
  /\ rc = 0
  /\ exception = "none"
  /\ cleanup_log = <<>>
  /\ sig = [count |-> 0, running |-> FALSE]
  /\ stitch = [ffmpeg |-> "unset", missing |-> {}]
  /\ w_now = 0
  /\ w_last = [i \in 1..MaxFrames |-> 0]
  /\ w_warned = {}
  /\ w_warnings = [i \in 1..MaxFrames |-> <<>>]

AloneIdle ==
  AffIdle /\ StageIdle /\ OffloadIdle /\ StopIdle /\ StreamsIdle /\ MatchIdle

CallsIdle == SplitIdle /\ TermIdle /\ AloneIdle

InitRun ==
  /\ CallsIdle
  /\ ConcatIdle
  /\ \E c \in Cfgs, h \in Hosts : RunEntry(c, h)

\* dry runs: run_orchestrator up to line 914
InitPlan ==
  /\ CallsIdle
  /\ ConcatIdle
  /\ \E c \in PlanCfgs, h \in PlanHosts : RunEntry(c, h)

\* ffmpeg_concat_segments called by itself
InitConcat ==
  /\ CallsIdle
  /\ RunIdle
  /\ c_pc = "start"
  /\ c_in \in [segments : DirectSegments, ext : Exts, allow_reencode : BOOLEAN,
               caller : {"direct"}]
  /\ c_list = [state |-> "none", lines |-> <<>>]
  /\ c_invoked = <<>>
  /\ c_ok = FALSE
  /\ ffmpeg_env \in [Strategies -> BOOLEAN]

Init == InitRun \/ InitConcat

NextRun ==
  \/ Plan
  \/ SpawnCheck
  \/ SpawnLaunch
  \/ SpawnTrack
  \/ \E i \in 1..MaxFrames : ChildExit(i)
  \/ MonitorIter
  \/ Stitch
  \/ Finalize
  \/ Return
  \/ SigHandler

Next == NextRun \/ NextConcat

Spec == Init /\ [][Next]_vars

\* split_ranges called by itself
InitSplit ==
  /\ TermIdle
  /\ AloneIdle
  /\ ConcatIdle
  /\ RunIdle
  /\ SplitEntry

SpecSplit == InitSplit /\ [][NextSplit]_vars

SpecConcat == InitConcat /\ [][NextConcat]_vars

\* _terminate_process_tree called by itself
InitTerm ==
  /\ SplitIdle
  /\ AloneIdle
  /\ ConcatIdle
  /\ RunIdle
  /\ TermEntry

SpecTerm == InitTerm /\ [][NextTerm]_vars

NextPlan == Plan

SpecPlan == InitPlan /\ [][NextPlan]_vars

\* the runs whose monitor loop is followed with its clock
InitWatch ==
  /\ CallsIdle
  /\ ConcatIdle
  /\ \E c \in WatchCfgs, h \in Hosts : RunEntry(c, h)

NextWatch ==
  \/ Plan
  \/ SpawnCheck
  \/ SpawnLaunch
  \/ SpawnTrack
  \/ \E i \in 1..MaxFrames : ChildExit(i)
  \/ MonitorIter
  \/ Tick
  \/ Finalize
  \/ Return
  \/ SigHandler

SpecWatch == InitWatch /\ [][NextWatch]_vars

\* the main thread keeps running: the monitor loop blocks on nothing (the
\* queue is read with get_nowait, line 999) and sleeps 0.15 s at most per
\* iteration (line 1043), so an iteration that can be taken is taken
InitLive ==
  /\ CallsIdle
  /\ ConcatIdle
  /\ \E c \in WatchCfgs, h \in Hosts : RunEntry(c, h)

\* an uninterrupted run
NextLive ==
  \/ Plan
  \/ SpawnCheck
  \/ SpawnLaunch
  \/ SpawnTrack
  \/ \E i \in 1..MaxFrames : ChildExit(i)
  \/ MonitorIter
  \/ Tick
  \/ Finalize
  \/ Return

SpecLive == InitLive /\ [][NextLive]_vars /\ WF_vars(MonitorIter)

\* build_affinity_blocks called by itself
InitAff ==
  /\ MatchIdle
  /\ StreamsIdle
  /\ StopIdle
  /\ StageIdle
  /\ OffloadIdle
  /\ SplitIdle
  /\ TermIdle
  /\ ConcatIdle
  /\ RunIdle
  /\ AffEntry

SpecAff == InitAff /\ [][NextAff]_vars

\* stage_project_to_local called by itself
InitStage ==
  /\ MatchIdle
  /\ StreamsIdle
  /\ StopIdle
  /\ AffIdle
  /\ OffloadIdle
  /\ SplitIdle
  /\ TermIdle
  /\ ConcatIdle
  /\ RunIdle
  /\ StageEntry

SpecStage == InitStage /\ [][NextStage]_vars

\* the offloader thread followed by itself
InitOffload ==
  /\ MatchIdle
  /\ StreamsIdle
  /\ StopIdle
  /\ AffIdle
  /\ StageIdle
  /\ SplitIdle
  /\ TermIdle
  /\ ConcatIdle
  /\ RunIdle
  /\ OffloadEntry

SpecOffload == InitOffload /\ [][NextOffload]_vars

\* the steps of the offloader thread
OffloadThread ==
  \/ OffloadPassStart
  \/ \E p \in OffloadEntries : OffloadFile(p)
  \/ OffloadPassEnd
  \/ OffloadStopped

\* the offloader is a thread of its own that nothing holds back: it waits
\* in time.sleep(poll_sec) alone (line 676)
SpecOffloadLive == InitOffload /\ [][NextOffload]_vars /\ WF_vars(OffloadThread)

\* one call of the kill tool
InitStop ==
  /\ MatchIdle
  /\ StreamsIdle
  /\ AffIdle
  /\ StageIdle
  /\ OffloadIdle
  /\ SplitIdle
  /\ TermIdle
  /\ ConcatIdle
  /\ RunIdle
  /\ StopEntry

SpecStop == InitStop /\ [][NextStop]_vars

\* build_output_matcher called by itself
InitMatch ==
  /\ StreamsIdle
  /\ AffIdle
  /\ StageIdle
  /\ OffloadIdle
  /\ StopIdle
  /\ SplitIdle
  /\ TermIdle
  /\ ConcatIdle
  /\ RunIdle
  /\ MatchEntry

SpecMatch == InitMatch /\ [][NextMatch]_vars

\* the renderers have been launched and have written nothing yet
InitStreams ==
  /\ MatchIdle
  /\ StreamsIdle
  /\ AffIdle
  /\ StageIdle
  /\ OffloadIdle
  /\ StopIdle
  /\ SplitIdle
  /\ TermIdle
  /\ ConcatIdle
  /\ RunIdle

SpecStreams == InitStreams /\ [][NextStreams]_vars

(***************************************************************************)
(* Claims                                                                  *)
(***************************************************************************)
RangeSize(r) == r[2] - r[1] + 1

Covered(rs) == UNION {r[1]..r[2] : r \in Range(rs)}

IsPartitionOf(rs, start, end) ==
  /\ Len(rs) >= 1
  /\ \A i \in DOMAIN rs : rs[i][1] <= rs[i][2]
  /\ rs[1][1] = start
  /\ rs[Len(rs)][2] = end
  /\ \A i \in 1..(Len(rs) - 1) : rs[i + 1][1] = rs[i][2] + 1
  /\ \A i, j \in DOMAIN rs :
       i < j => /\ rs[i][1] < rs[j][1]
                /\ (rs[i][1]..rs[i][2]) \cap (rs[j][1]..rs[j][2]) = {}
  /\ Covered(rs) = start..end
  /\ \A i, j \in DOMAIN rs :
       RangeSize(rs[i]) - RangeSize(rs[j]) <= 1

\* C1: for start <= end and any integer parts, the ranges split_ranges
\* returns are ordered by start, non-empty, pairwise disjoint, contiguous,
\* cover exactly [start, end], and differ in size by at most one frame.
C1_Partition ==
  (sp_pc = "ret" /\ sp_args.start <= sp_args.end)
    => IsPartitionOf(sp_ret, sp_args.start, sp_args.end)

\* a split with a remainder: three or more ranges of two different sizes
C1_Witness ==
  /\ sp_pc = "ret"
  /\ sp_args.start <= sp_args.end
  /\ Len(sp_ret) >= 3
  /\ RangeSize(sp_ret[1]) # RangeSize(sp_ret[Len(sp_ret)])

\* the planning of lines 790-874 is over
Planned == pc \notin {"idle", "plan", "crashed"}

Segmented ==
  /\ Len(ranges) >= 2
  /\ Len(segment_outputs) = Len(ranges)
  /\ \A i \in DOMAIN ranges : child_out(i) = segment_outputs[i]
  /\ \A i, j \in DOMAIN segment_outputs :
       i # j => segment_outputs[i] # segment_outputs[j]
  /\ \A i \in DOMAIN ranges : child_out(i) # LocalOutputPath(use_scratch)

SegmentationDue ==
  /\ total_frames > 1
  /\ ~output_is_seq
  /\ workers > 1
  /\ ffmpeg_path = "found"

\* C2: with start <= end, a run is segmented (two or more jobs, one job per
\* range, each with its own segment file, no two the same) exactly when it
\* has more than one frame, a single-file output, more than one worker and a
\* stitching tool; any other run with a single-file output plans exactly one
\* job, which writes the output file itself; with a pattern output every job
\* is given the output target.
C2_SegmentationIff ==
  (Planned /\ cfg.start <= cfg.end) =>
    /\ SegmentationDue <=> Segmented
    /\ (~SegmentationDue /\ ~output_is_seq) =>
         (Len(ranges) = 1 /\ child_out(1) = LocalOutputPath(use_scratch))
    /\ output_is_seq =>
         \A i \in DOMAIN ranges : child_out(i) = LocalOutputPath(use_scratch)

\* a plan of three segments
C2_Witness ==
  /\ Planned
  /\ cfg.start <= cfg.end
  /\ SegmentationDue
  /\ Len(segment_outputs) >= 3

\* C3: the protocol called on a process that is still running always
\* attempts the graceful signal, and a process that has not exited when the
\* call is over has had the forceful kill attempted on it, also when the
\* graceful signal could not be sent.
C3_EscalationNeverSkipped ==
  (tp_pc = "ret" /\ tp_proc.st = "running") =>
    /\ tp_res.term # "none"
    /\ tp_res.st = "running" => tp_res.kill # "none"

\* the steps of one cleanup, in order, for the children chs
HandlerLogOk(log, chs, with_scratch) ==
  LET n == Cardinality({i \in DOMAIN chs : chs[i].tracked}) IN
  /\ Len(log) = n + 2 + (IF with_scratch THEN 1 ELSE 0)
  /\ log[1] = [ev |-> "stop_children", ch |-> 0]
  /\ \A k \in 1..n : chs[k].tracked /\ log[k + 1] = [ev |-> "terminate", ch |-> k]
  /\ log[n + 2] = [ev |-> "stop_offload", ch |-> 0]
  /\ with_scratch => log[n + 3] = [ev |-> "rmtree", ch |-> 0]

\* C4: the handler of a signal raises the stop flag, applies the protocol to
\* every child tracked at that moment in list order, stops the offload loop
\* and then removes the scratch directory if there is one, all in one piece
\* and while run_orchestrator is still running; none of it is undone before
\* the run returns.
C4_HandlerCleansUp ==
  /\ [][sig.count' # sig.count =>
          /\ pc' = pc
          /\ pc \notin {"done", "crashed"}
          /\ stop_children_event'
          /\ stop_offload_event'
          /\ HandlerLogOk(cleanup_log', children, use_scratch)]_vars
  /\ []((pc = "done" /\ sig.count > 0) =>
          /\ stop_children_event
          /\ stop_offload_event
          /\ cleanup_log # <<>>
          /\ cleanup_log[1].ev = "stop_children"
          /\ use_scratch => cleanup_log[Len(cleanup_log)].ev = "rmtree")

\* a run with scratch that was interrupted with two children tracked, and
\* has returned
C4_Witness ==
  /\ pc = "done"
  /\ sig.count > 0
  /\ ~cfg.kill_on_fail
  /\ use_scratch
  /\ Len(cleanup_log) = 5
  /\ scratch = "removed"

\* C5: a run without segment outputs that went through the monitor loop and
\* returned has returned 130 if the stop flag is set and no failure is
\* recorded, 1 if a failure is recorded, and 0 otherwise.
C5_ExitCodePolicy ==
  (pc = "done" /\ segment_outputs = <<>> /\ ~cfg.dry_run) =>
    rc = CASE failures # <<>> -> 1
           [] failures = <<>> /\ stop_children_event -> 130
           [] OTHER -> 0

\* an interrupted run of two jobs without a recorded failure
C5_Witness ==
  /\ pc = "done"
  /\ segment_outputs = <<>>
  /\ ~cfg.dry_run
  /\ sig.count > 0
  /\ Len(children) = 2
  /\ rc = 130

\* C6: a run interrupted while a renderer was running, none of whose
\* renderers has failed by itself (exit code 1), returns 130 when it returns,
\* segmented or not, with scratch or not (a stitching tool that has gone
\* missing by the stitch step apart).
C6_InterruptReturns130 ==
  (/\ pc = "done"
   /\ sig.count > 0
   /\ sig.running
   /\ \A i \in DOMAIN children : children[i].rc # 1
   /\ stitch.ffmpeg # "missing")
    => rc = 130

\* a segmented run has run lines 1048-1059
ReachedStitch == segment_outputs # <<>> /\ stitch.ffmpeg # "unset"

Ended == pc \in {"done", "crashed"}

\* C7: a segmented run that has come to the stitch step returns, and returns
\* 2 exactly when the tool is not found there, a segment file is missing, or
\* ffmpeg fails every strategy.
C7_ReturnsTwoExactlyWhen ==
  (ReachedStitch /\ Ended) =>
    ((pc = "done" /\ rc = 2) <=>
       \/ stitch.ffmpeg = "missing"
       \/ stitch.missing # {}
       \/ \A s \in Strategies : ~ffmpeg_env[s])

\* C8: a segmented run whose jobs all exited 0, whose segment files all
\* exist, with ffmpeg found and succeeding in some strategy, has the stitch
\* engine run ffmpeg, has the single file produced, and returns 0.
C8_SegmentedSuccess ==
  (/\ ReachedStitch
   /\ Ended
   /\ \A i \in DOMAIN ranges :
        i \in DOMAIN children /\ children[i].st = "exited" /\ children[i].rc = 0
   /\ stitch.ffmpeg = "found"
   /\ stitch.missing = {}
   /\ \E s \in Strategies : ffmpeg_env[s])
    => /\ pc = "done"
       /\ rc = 0
       /\ c_invoked # <<>>
       /\ outfile # "none"

\* which strategy a command line is: by its codecs
StrategyOf(cmd) ==
  IF cmd.v = "copy" /\ cmd.a = "copy" THEN 1
  ELSE IF cmd.a = "copy" THEN 2
  ELSE 3

InvocationsInOrder ==
  /\ Len(c_invoked) <= 3
  /\ \A k \in DOMAIN c_invoked : StrategyOf(c_invoked[k].cmd) = k
  /\ \A k \in DOMAIN c_invoked : k < Len(c_invoked) => ~c_invoked[k].ok

ConcatReturned ==
  c_pc = "ret" /\ c_in.allow_reencode /\ c_in.segments # <<>>

AllThreeFailed ==
  Len(c_invoked) = 3 /\ \A k \in DOMAIN c_invoked : ~c_invoked[k].ok

\* C9 as stated: the strategies in order, each only after the earlier ones
\* failed, and the result is failure only if all three strategies failed
C9_FailureOnlyAfterThree ==
  /\ InvocationsInOrder
  /\ ConcatReturned =>
       /\ c_ok <=> (c_invoked # <<>> /\ c_invoked[Len(c_invoked)].ok)
       /\ ~c_ok => AllThreeFailed

\* C9: the strategies are invoked in the order stream copy, re-encoded video
\* with copied audio, re-encoded video and audio; one is invoked only after
\* all the earlier ones have failed; there are at most three invocations;
\* with re-encoding allowed and a non-empty list the function returns
\* success exactly when the last invocation succeeded, and failure only if
\* all three strategies failed or the list file could not be written (and
\* then no strategy was invoked).
C9_FallbackOrder ==
  /\ InvocationsInOrder
  /\ ConcatReturned =>
       /\ c_ok <=> (c_invoked # <<>> /\ c_invoked[Len(c_invoked)].ok)
       /\ ~c_ok => \/ AllThreeFailed
                   \/ c_list.state = "failed" /\ c_invoked = <<>>

\* the first two strategies failed and the third succeeded
C9_Witness ==
  /\ ConcatReturned
  /\ Len(c_invoked) = 3
  /\ c_ok

RECURSIVE Unquote(_, _)
\* the text ffmpeg reads from a quoted word: inside quotes all is literal,
\* outside them a backslash keeps the next character
Unquote(s, inq) ==
  IF s = <<>> THEN <<>>
  ELSE IF inq
  THEN IF Head(s) = Quote THEN Unquote(Tail(s), FALSE)
       ELSE <<Head(s)>> \o Unquote(Tail(s), TRUE)
  ELSE IF Head(s) = Quote THEN Unquote(Tail(s), TRUE)
  ELSE IF Head(s) = Backslash /\ Len(s) >= 2
  THEN <<s[2]>> \o Unquote(Tail(Tail(s)), FALSE)
  ELSE <<Head(s)>> \o Unquote(Tail(s), FALSE)

\* the path of a line  file '...'
PathOfLine(line) == Unquote(Tail(line), FALSE)

\* C10: segment i is the file job i writes and job i renders the i-th range,
\* the ranges ascending, whatever the order the jobs exit in; the list given
\* to ffmpeg_concat_segments by the run is segment_outputs; and ffmpeg reads
\* from the i-th line of the list file the i-th path of the list it was given.
C10_RangeOrder ==
  /\ segment_outputs # <<>> =>
       /\ Len(segment_outputs) = Len(ranges)
       /\ \A i, j \in DOMAIN ranges : i < j => ranges[i][2] < ranges[j][1]
       /\ \A i \in DOMAIN children :
            children[i].range = ranges[i] /\ children[i].out = segment_outputs[i]
       /\ \A i, j \in DOMAIN segment_outputs :
            i # j => segment_outputs[i] # segment_outputs[j]
  /\ c_in.caller = "run" => c_in.segments = segment_outputs
  /\ c_list.state = "written" =>
       /\ Len(c_list.lines) = Len(c_in.segments)
       /\ \A i \in DOMAIN c_list.lines :
            /\ c_list.lines[i][1] = "file "
            /\ PathOfLine(c_list.lines[i]) = c_in.segments[i]

\* a segmented run whose second job exited before its first, at the call of
\* the stitch engine
C10_Witness ==
  /\ ReachedStitch
  /\ stitch.ffmpeg = "found"
  /\ stitch.missing = {}
  /\ inverted
  /\ pc = "crashed"

\* C11: run_orchestrator never ends by an exception: whatever fails (the
\* launch of a renderer, the stitching, an interrupt), the run ends by
\* returning an exit code.
C11_NoUncaughtException == pc # "crashed"

\* C12: when a run that uses scratch has returned, the scratch directory is
\* gone, or rmtree was called on it and could not remove it: after success,
\* job failure, interrupt, failed stitching, missing segments and dry run.
C12_ScratchDeleted ==
  (pc = "done" /\ use_scratch) => (scratch = "removed" \/ rmtree_called)

\* line 525: the cap of the automatic choice, 24 when none is given
max_c == IF cfg.max_concurrency = 0 THEN 24 ELSE cfg.max_concurrency

\* C18: the number of workers a run uses is at least 1, and it is exactly 1
\* when the frame range holds at most one frame, whether the number was
\* requested or chosen automatically.
C18_WorkersAtLeastOne ==
  pc \notin {"idle", "plan"} =>
    /\ workers >= 1
    /\ concurrency >= 1
    /\ total_frames <= 1 => (workers = 1 /\ concurrency = 1)

\* a run over one frame for which several workers were requested, and a run
\* over an empty range whose number was chosen automatically
C18_Witness ==
  /\ pc \notin {"idle", "plan"}
  /\ workers = 1
  /\ \/ total_frames = 1 /\ cfg.concurrency > 1
     \/ total_frames <= 0 /\ cfg.concurrency <= 0 /\ auto_concurrency(cfg, host) > 1

\* C19: with a positive cap and a positive number of logical CPUs, the
\* planned number of workers is at most the smaller of the two, whether the
\* number was requested or chosen automatically.
C19_WorkersWithinCap ==
  (Planned /\ max_c > 0 /\ host.logical > 0) =>
    workers <= Min2(max_c, host.logical)

\* the deduplicated, order-preserving list of the ids of the pools
AllIds(pools) ==
  LET flat == Flatten(pools)
      firsts == {i \in DOMAIN flat : \A j \in 1..(i - 1) : flat[j] # flat[i]}
      \* the i-th first occurrence, by position
      nth[k \in 0..Len(flat)] ==
        IF k = 0 THEN 0
        ELSE IF \E i \in firsts : i > nth[k - 1]
             THEN CHOOSE i \in firsts :
                    i > nth[k - 1] /\ \A j \in firsts : j > nth[k - 1] => i <= j
             ELSE 0
  IN  [k \in 1..Cardinality(firsts) |-> flat[nth[k]]]

\* the elements of ids at the 0-based positions i with i mod n = k
EveryNth(ids, n, k) ==
  LET count == Cardinality({i \in 0..(Len(ids) - 1) : i % n = k})
  IN  [m \in 1..count |-> ids[(m - 1) * n + k + 1]]

\* C20: with n > 0 and at least one id in the pools, build_affinity_blocks
\* returns n blocks, block k holding the ids of the deduplicated list at the
\* positions i with i mod n = k, so that every id of the pools is in exactly
\* one block, once; with n <= 0 or no id it returns no block.
C20_RoundRobinBlocks ==
  ab_pc = "ret" =>
    LET n   == ab_args.concurrency
        ids == AllIds(ab_args.pools)
    IN  IF n <= 0 \/ ids = <<>>
        THEN ab_ret = <<>>
        ELSE /\ Len(ab_ret) = n
             /\ \A k \in 0..(n - 1) : ab_ret[k + 1] = EveryNth(ids, n, k)
             /\ \A x \in {ids[i] : i \in DOMAIN ids} :
                  Cardinality({<<b, j>> \in (1..n) \X (1..Len(ids)) :
                                 j <= Len(ab_ret[b]) /\ ab_ret[b][j] = x}) = 1

\* two pools sharing an id, whose two distinct ids go to two blocks
C20_Witness ==
  /\ ab_pc = "ret"
  /\ ab_args.concurrency = 2
  /\ Len(ab_args.pools) = 2
  /\ \E i \in DOMAIN ab_args.pools[1], j \in DOMAIN ab_args.pools[2] :
       ab_args.pools[1][i] = ab_args.pools[2][j]
  /\ Len(ab_ret) = 2
  /\ Len(ab_ret[1]) = 1
  /\ Len(ab_ret[2]) = 1

AllFailed(attempts) == \A i \in DOMAIN attempts : ~attempts[i]

\* C15: stage_project_to_local always returns a path: it makes at most 3
\* copy attempts, returns the staged path after the first attempt that
\* succeeds, and returns the original path after 3 failed attempts, and
\* without any attempt when the source is missing or is the staged file (or a
\* check before the loop fails).
C15_StagingNeverFatal ==
  /\ Len(sg_attempts) <= 3
  /\ sg_pc = "ret" =>
       LET n == Len(sg_attempts)
           skipped == \/ sg_env.exists # "yes"
                      \/ ~sg_env.mkdir_ok
                      \/ sg_env.same
       IN  IF skipped
           THEN n = 0 /\ sg_ret = sg_env.project
           ELSE /\ n >= 1
                /\ AllFailed(SubSeq(sg_attempts, 1, n - 1))
                /\ \A i \in 1..n : sg_attempts[i] = sg_env.copy[i]
                /\ IF sg_attempts[n]
                   THEN sg_ret = <<"scratch", "_project",
                                   sg_env.project[Len(sg_env.project)]>>
                   ELSE n = 3 /\ sg_ret = sg_env.project

\* a call that returned the staged path at its third attempt
C15_Witness ==
  /\ sg_pc = "ret"
  /\ sg_attempts = <<FALSE, FALSE, TRUE>>
  /\ sg_ret # sg_env.project

CopiesOf(p) == Cardinality({i \in DOMAIN of_hist[p] : of_hist[p][i] = "copied"})

\* C16: over the passes of one offload loop, a qualifying file is copied
\* with success at most once and is in the record exactly when it was: once
\* recorded it is only skipped, and as long as its copy has failed it is not
\* recorded and the next pass that meets it copies it again.
C16_CopiedOnce ==
  \A p \in OffloadEntries :
    /\ CopiesOf(p) <= 1
    /\ p \in of_copied <=> CopiesOf(p) = 1
    /\ ~Qualifies(p) => of_hist[p] = <<>>
    /\ \A i \in DOMAIN of_hist[p] :
         /\ of_hist[p][i] = "skipped" =>
              \E j \in 1..(i - 1) : of_hist[p][j] = "copied"
         /\ of_hist[p][i] \in {"copied", "failed"} =>
              \A j \in 1..(i - 1) : of_hist[p][j] = "failed"

\* a file whose copy failed in one pass and succeeded in the next, beside a
\* file copied in the first pass and skipped in the second
C16_Witness ==
  /\ of_hist["out_0001.png"] = <<"failed", "copied">>
  /\ of_hist["out_0002.png"] = <<"copied", "skipped">>

\* the pids the tool is to end, the runner's apart
NonRunnerTargets ==
  {p \in (IF ks_child_file.exists THEN ks_child_file.pids ELSE {})
           \cup ks_env.log_pids : p > 1 /\ p # ks_env.read1}

\* the pid file holds the same text of digits at both reads
HoldsRunnerPid == ks_env.read1 >= 0 /\ ks_env.read2 = ks_env.read1

\* C17: when the pid file holds a numeric pid, _kill_tree is called on the
\* runner's pid only as the last call, after the calls on every other target
\* pid, and by the time main is past line 190 it has been called on it once.
C17_RunnerKilledLast ==
  (HoldsRunnerPid /\ ks_pc \in {"kill", "cleanup", "ret"}) =>
    /\ \A i \in DOMAIN ks_calls :
         ks_calls[i] = ks_env.read1 =>
           /\ i = Len(ks_calls)
           /\ \A p \in NonRunnerTargets : \E j \in 1..(i - 1) : ks_calls[j] = p
    /\ ks_pc \in {"cleanup", "ret"} =>
         Cardinality({i \in DOMAIN ks_calls : ks_calls[i] = ks_env.read1}) = 1

\* a runner whose pid lies between the pids of its two renderers
C17_Witness ==
  /\ HoldsRunnerPid
  /\ ks_pc = "ret"
  /\ ks_calls = <<2, 4, 3>>
  /\ ks_env.running

\* C14: the lines of one renderer are logged in the order it wrote them,
\* its standard output and its standard error taken together.
C14_JobOrderKept ==
  \A i, j \in DOMAIN st_log :
    (i < j /\ st_log[i].pid = st_log[j].pid) => st_log[i].line < st_log[j].line

\* in this step a signal reaches child i: SIGKILL is sent to it, or it is
\* ended by SIGTERM or SIGKILL
SignalledInStep(i) ==
  /\ children[i].st = "running"
  /\ ~children[i].killed
  /\ \/ children'[i].killed
     \/ children'[i].st = "exited" /\ children'[i].rc \in {0 - 15, 0 - 9}

\* this step is the handler of a signal, or records a failure under
\* kill_on_fail
EscalationStep ==
  \/ sig'.count > sig.count
  \/ cfg.kill_on_fail /\ Len(failures') > Len(failures)

\* C13: a signal reaches a renderer only in a step of the signal handler or
\* in the step that records a failure under kill_on_fail; a renderer warned
\* about was running and silent for longer than the grace period, and the
\* step that warns leaves it as it is unless it is such a step.
C13_StalenessNeverKills ==
  [][\A i \in DOMAIN children :
       /\ SignalledInStep(i) => EscalationStep
       /\ (i \notin w_warned /\ i \in w_warned') =>
            /\ children[i].st = "running"
            /\ w_now - w_last[i] > cfg.child_grace_sec
            /\ children'[i] = children[i] \/ EscalationStep]_vars

\* a renderer warned about, still running and not signalled, silent again
\* since the warning
C13_Witness ==
  /\ pc = "monitor"
  /\ \E i \in w_warned :
       /\ children[i].st = "running"
       /\ ~children[i].killed
       /\ w_now > w_last[i]
  /\ sig.count = 0

\* C22: for start <= end, split_ranges returns min(max(parts, 1), total)
\* ranges, total = end - start + 1; the first total mod count of them have
\* total div count + 1 frames and the others total div count frames.
C22_CountAndSizes ==
  (sp_pc = "ret" /\ sp_args.start <= sp_args.end) =>
    LET total == sp_args.end - sp_args.start + 1
        count == Min2(Max2(sp_args.parts, 1), total)
    IN  /\ Len(sp_ret) = count
        /\ \A i \in DOMAIN sp_ret :
             sp_ret[i][2] - sp_ret[i][1] + 1 =
               (total \div count) + (IF i <= total % count THEN 1 ELSE 0)

\* a split into fewer parts than frames that leaves a remainder
C22_Witness ==
  /\ sp_pc = "ret"
  /\ sp_args.parts >= 2
  /\ Len(sp_ret) = sp_args.parts
  /\ Len(sp_ret) < sp_args.end - sp_args.start + 1
  /\ (sp_args.end - sp_args.start + 1) % sp_args.parts = 2
  /\ RangeSize(sp_ret[2]) = RangeSize(sp_ret[3]) + 1

\* the number of workers the RAM allows: the largest k with
\* k * ram_per_worker <= 0.80 * ram, or the number of CPUs when no RAM is
\* detected; ram_per_worker is 32 when not given
MaxByRam ==
  LET per == IF cfg.ram_per_process_gb <= 0 THEN 32 ELSE cfg.ram_per_process_gb
  IN  IF host.total_ram_gb > 0
      THEN CHOOSE k \in 0..host.total_ram_gb :
             /\ 5 * k * per <= 4 * host.total_ram_gb
             /\ 5 * (k + 1) * per > 4 * host.total_ram_gb
      ELSE host.logical

\* the number of workers the threads allow
BaseByThreads ==
  LET least == IF cfg.disable_mfr THEN 8 ELSE 16
      per   == IF cfg.mfr_threads > least THEN cfg.mfr_threads ELSE least
  IN  IF host.logical \div per >= 1 THEN host.logical \div per ELSE 1

\* the least element of a set of numbers
Least(S) == CHOOSE x \in S : \A y \in S : x <= y

\* C23: in auto mode, for more than one frame, the planned count is the
\* least of the cap, the RAM limit, the thread limit and the number of CPUs,
\* and at least 1; without a CPU count it is min(4, cap), and at least 1.
C23_AutoFormula ==
  (pc \notin {"idle", "plan"} /\ cfg.concurrency <= 0 /\ total_frames > 1) =>
    LET low == IF host.logical > 0
               THEN Least({max_c, MaxByRam, BaseByThreads, host.logical})
               ELSE Least({4, max_c})
    IN  workers = (IF low >= 1 THEN low ELSE 1)

\* a machine on which the RAM is what limits the planned count
C23_Witness ==
  /\ pc \notin {"idle", "plan"}
  /\ cfg.concurrency <= 0
  /\ total_frames > 1
  /\ host.total_ram_gb > 0
  /\ workers > 1
  /\ workers < max_c
  /\ workers < BaseByThreads

\* the call of the protocol touched no signal
NoSignal(r) == r.term = "none" /\ r.kill = "none"

\* C24: the protocol signals no process that poll() found exited when it was
\* called; it tries the forceful kill only after the graceful signal was
\* sent, and never on a process seen to exit in the grace window; a second
\* call on a process the first one left exited sends nothing.
C24_SignalOrder ==
  tp_pc = "ret" =>
    /\ tp_proc.st # "running" => NoSignal(tp_res)
    /\ tp_res.kill # "none" => tp_res.term = "sent"
    /\ (tp_proc.st = "running" /\ tp_res.st = "exited") => tp_res.kill = "none"
    /\ tp_res.st = "exited" =>
         \A e \in SysCalls :
           NoSignal(terminate_process_tree([st |-> tp_res.st, rc |-> tp_res.rc], e))

\* a running process that leaves on the graceful signal, within the grace
\* window, under system calls whose forceful kill would have worked
C24_Witness ==
  /\ tp_pc = "ret"
  /\ tp_proc.st = "running"
  /\ tp_res.term = "sent"
  /\ tp_res.st = "exited"
  /\ tp_res.rc = SigtermRc
  /\ tp_sys.group_kill_ok

\* C25: when the monitor loop has been left, in a run that no signal
\* interrupted, every renderer of the list has exited, also when the loop was
\* left in the iteration in which kill_on_fail called the cleanup.
C25_LoopExitsWhenAllExited ==
  (pc \in {"stitch", "finish"} /\ sig.count = 0) =>
    \A i \in DOMAIN children : children[i].st = "exited"

\* every renderer of the list has exited
AllExited == \A i \in DOMAIN children : children[i].st = "exited"

\* C26: an iteration of the monitor loop can always be taken, whatever the
\* renderers and their output do, and once every renderer of the list has
\* exited the loop is left and the run goes on to the stitching or to the
\* final steps.
C26_LoopTerminates ==
  /\ [](pc = "monitor" => ENABLED MonitorIter)
  /\ (pc = "monitor" /\ AllExited) ~> (pc \in {"stitch", "finish"})

\* the loop at work on two renderers that have both exited, one of them after
\* the other
C26_Witness ==
  /\ pc = "monitor"
  /\ Len(children) = 2
  /\ AllExited
  /\ inverted

\* the renderers recorded in a list of failures
Recorded(fails) == {fails[k] : k \in DOMAIN fails}

C28_EscalationInSameIteration ==
  [][(cfg.kill_on_fail /\ Len(failures') > Len(failures)) =>
       /\ pc = "monitor"
       /\ Len(failures') = Len(failures) + 1
       /\ stop_children_event'
       /\ stop_offload_event'
       /\ HandlerLogOk(cleanup_log', children, use_scratch)
       /\ DOMAIN children' = DOMAIN children
       /\ \A i \in DOMAIN children :
            children'[i] \in TerminateOutcomes(children[i])]_vars

\* a run that no signal interrupted, in which the failure of one renderer has
\* had SIGKILL sent to the other
C28_Witness ==
  /\ cfg.kill_on_fail
  /\ sig.count = 0
  /\ stop_children_event
  /\ Len(failures) = 1
  /\ \E i \in DOMAIN children : children[i].killed /\ ~InSeq(i, failures)

C30_WarningsSpaced ==
  /\ [](\A i \in DOMAIN w_warnings :
          \A k \in 1..(Len(w_warnings[i]) - 1) :
            w_warnings[i][k + 1] - w_warnings[i][k] > cfg.child_grace_sec)
  /\ [][\A i \in DOMAIN w_warnings :
          w_warnings'[i] # w_warnings[i] =>
            /\ i \in DOMAIN children
            /\ children[i].st = "running"
            /\ w_now - w_last[i] > cfg.child_grace_sec
            /\ w_last'[i] = w_now
            /\ w_warnings'[i] = Append(w_warnings[i], w_now)]_vars

\* a running renderer warned about twice
C30_Witness ==
  /\ pc = "monitor"
  /\ sig.count = 0
  /\ \E i \in DOMAIN children :
       /\ children[i].st = "running"
       /\ Len(w_warnings[i]) = 2

\* name is the prefix, then exactly `width` digits, then the suffix; the
\* letters compared as `same` compares them
HasShape(name, pre, width, suf, same(_, _)) ==
  /\ Len(name) = Len(pre) + width + Len(suf)
  /\ same(SubSeq(name, 1, Len(pre)), pre)
  /\ \A k \in (Len(pre) + 1)..(Len(pre) + width) : name[k] \in DigitChars
  /\ same(SubSeq(name, Len(pre) + width + 1, Len(name)), suf)

SameText(a, b) == a = b

SameButCase(a, b) == LowerSeq(a) = LowerSeq(b)

\* C21: for a specification with a counter token the predicate accepts a
\* name only if it is the prefix, exactly as many digits as the token is
\* wide, and the suffix, the case of the letters apart, and it accepts every
\* name that is so with the letters as they are; for a specification without
\* a counter token it accepts exactly the names equal to the specification's
\* file name, the case of the letters apart.
C21_MatcherShape ==
  mt_pc = "ret" =>
    IF mt_spec.token.text # <<>>
    THEN /\ mt_ok => HasShape(mt_name, mt_spec.pre, mt_spec.token.width, mt_spec.suf,
                              SameButCase)
         /\ HasShape(mt_name, mt_spec.pre, mt_spec.token.width, mt_spec.suf, SameText)
              => mt_ok
    ELSE mt_ok <=> SameButCase(mt_name, BaseOf(mt_spec))

\* C31: once the event is set, the loop at its test lists nothing more: it
\* only leaves; a pass in progress is carried on to its end; a listing that
\* raises and a copy that fails leave the thread in its loop; and the loop
\* does leave.
C31_StopsAfterCurrentPass ==
  /\ [](of_pc \in {"idle", "loop", "pass", "stopped"})
  /\ [][/\ (of_stop /\ of_pc = "loop") =>
            /\ of_pc' \in {"loop", "stopped"}
            /\ of_pass' = of_pass
            /\ of_hist' = of_hist
            /\ of_copied' = of_copied
        /\ of_pc = "pass" => of_pc' \in {"pass", "loop"}
        /\ of_pc = "stopped" => of_pc' = "stopped"
        /\ of_pass' \in {of_pass, of_pass + 1}]_vars
  /\ of_stop ~> (of_pc = "stopped")

\* the loop has left after two passes, with one copy failed in both and a
\* file in the directory it never met
C31_Witness ==
  /\ of_pc = "stopped"
  /\ of_pass = MaxPasses
  /\ \E p, q \in OffloadEntries :
       /\ Qualifies(p)
       /\ p \in of_dir
       /\ of_hist[p] = <<>>
       /\ of_hist[q] = <<"failed", "failed">>

\* C32: in a segmented run the segment files are one per job and distinct,
\* job i writes segment i and no other; and when the run has ended after the
\* stitch step found the tool and every segment file, ffmpeg has been run on
\* the list of the segments exactly once, so that each segment file was read
\* once.
C32_SegmentsOnceEach ==
  segment_outputs # <<>> =>
    /\ Len(segment_outputs) = Len(ranges)
    /\ \A i, j \in DOMAIN segment_outputs :
         i # j => segment_outputs[i] # segment_outputs[j]
    /\ \A i \in DOMAIN children : children[i].out = segment_outputs[i]
    /\ (ReachedStitch /\ Ended /\ stitch.ffmpeg = "found" /\ stitch.missing = {}) =>
         /\ c_in.segments = segment_outputs
         /\ Len(c_invoked) = 1

\* the pids named by the files that exist when the tool gathers them
PresentPids ==
  (IF ks_env.read1 # NoPid THEN {ks_env.read1} ELSE {})
  \cup (IF ks_child_file.exists THEN ks_child_file.pids ELSE {})
  \cup ks_env.log_pids

\* the processes alive when the tool starts
AliveAtStart == IF ks_env.running THEN 2..MaxPid ELSE {}

C34_NoSpawnAfterStop ==
  [][stop_children_event => Len(children') = Len(children)]_vars

\* C35: when the monitor loop has been left, no line of a renderer is left
\* in a pipe or on the queue: every line written is in the log.
C35_NothingLeftUnread ==
  st_phase = "left" =>
    /\ st_q = <<>>
    /\ \A p \in StreamPids, t \in Tags : st_pipe[p][t] = <<>>
    /\ \A p \in StreamPids :
         \A n \in DOMAIN st_emitted[p] :
           \E i \in DOMAIN st_log : st_log[i].pid = p /\ st_log[i].line = n

\* C36: when the offloader has stopped, every output file that was in the
\* scratch directory when the run set the stop event has been copied to the
\* final directory.
C36_AllCopiedBeforeStop ==
  of_pc = "stopped" =>
    \A p \in of_at_stop : Qualifies(p) => p \in of_copied

\* C37: when the launch of a job has failed, the run has ended with the
\* termination protocol given to the jobs that were started, the offloader
\* told to stop and the scratch workspace removed.
SpawnFailed ==
  pc = "crashed" /\ exception = "OSError" /\ stitch.ffmpeg = "unset"

C37_SpawnFailureCleansUp ==
  SpawnFailed =>
    /\ stop_children_event
    /\ children # <<>> => cleanup_log # <<>>
    /\ stop_offload_event
    /\ use_scratch => (scratch = "removed" \/ rmtree_called)

====
